---- MODULE Spec2Model ----
(***************************************************************************)
(* Voice agent: telephony <-> LLM realtime bridge with appointment booking.*)
(*                                                                         *)
(* Part I   Booking Store and create_appointment                           *)
(*          (handlers/tools.handler.ts, services/database.service.ts).     *)
(* Part II  Stream bridge life cycle (twilio-handler.ts,                   *)
(*          openai-realtime.ts, session-manager.ts).                       *)
(* Part III Conversation state machine of the LLM client                   *)
(*          (openai-realtime.ts handleEvent).                              *)
(* Part IV  Raw frames of the two sockets (JSON.parse and dispatch).        *)
(* Part V   Audio conversion: mu-law codecs, resamplers, and the relay of  *)
(*          audio frames (audio-transcoder.ts, utils/codec, resampler).    *)
(* Part VI  Session Cache operations of one call (session-manager.ts).     *)
(***************************************************************************)
EXTENDS Integers, Sequences, FiniteSets, TLC

(***************************************************************************)
(* Bounds of the model                                                     *)
(***************************************************************************)
\* size of the sample of confirmation numbers Math.random can produce
MaxConf == 2
\* rows the appointments table may hold
MaxRows == 3
\* start events the telephony peer may send on one socket
MaxStarts == 1
\* frames and marks recorded of the telephony output
MaxLog == 4
\* round trips a buffer may make through a codec
MaxTrips == 1
\* samples of an 8 kHz buffer, of a 24 kHz buffer, and resamplings of a buffer
MaxLen8 == 3
MaxLen24 == 7
MaxOps == 2
\* audio frames relayed in each direction
MaxRelay == 2
\* Session Cache operations started during the call
MaxCacheOps == 3

(***************************************************************************)
(* Program constants                                                       *)
(***************************************************************************)
\* `APT-${Math.floor(10000 + Math.random() * 90000)}`
ConfLow == 10000
\* private readonly MAX_RECONNECT = 3
MAX_RECONNECT == 3
\* confirmation numbers of rows stored before the server starts lie above
StoredConfLow == 20000
\* duration of one telephony media frame, in ms
FrameMs == 20
\* const delay = 1000 * this.reconnectAttempts
BackoffUnitMs == 1000
\* bytes of one 20 ms telephony frame of 8 kHz mu-law
FrameBytes == 160
\* samples per second of the LLM's PCM16 audio
Rate24k == 24000

SlotTakenMsg == "That time slot was just booked by someone else. Please choose another time."
DbErrorMsg == "Database error - please try again."
ToolErrorMsg == "I'm having trouble with our system right now. Let me try again."

Calls == {"CA1", "CA2"}
Dates == {"2026-02-10"}
Times == {"10:30 AM", "11:00 AM"}
ConfNumbers == ConfLow..(ConfLow + MaxConf - 1)

NoResult == [kind |-> "none"]
Success(n) == [kind |-> "result", success |-> TRUE, confirmation_number |-> n]
Failure(msg) == [kind |-> "result", success |-> FALSE, error |-> msg]
ToolError == [kind |-> "toolerror", error |-> TRUE, message |-> ToolErrorMsg]
NoReq == [date |-> "", time |-> ""]
NoAudio == [stage |-> "none"]
NoCache == [session |-> "none"]

VARIABLES
  \* ---- Part I: Booking Store and tool dispatch ----
  appointments,   \* the appointments relation, in insertion (id) order
  toolPc,         \* per call: where its function-call handler is suspended
  toolReq,        \* per call: the (date, time) of the running create_appointment
  apptResult,     \* per call: what createAppointment returned
  toolResult,     \* per call: what executeToolCall returned (sent to the LLM)
  freeAtInvoke,   \* per call: the slot had no confirmed row when the call was invoked
  inserted,       \* per call: this invocation inserted a row
  confirmationNumber, \* per call: createAppointment's local confirmationNumber
  overlap,        \* per call: calls whose invocation of the same slot overlapped this one
  dispatchLog,    \* per call: transcript entries saved by its last tool dispatch
  tz,             \* the server's UTC offset in hours (local time = UTC + tz)
  slotsQuery,     \* the last list_available_slots: its date and what it returned
  \* ---- Part V: audio conversion ----
  audio,          \* the samples being converted and the conversions applied
  \* ---- Part VI: the Session Cache of one call ----
  cache,          \* the stored session, the Redis connection, the running operations
  \* ---- Parts II and III: one TwilioStreamHandler ----
  bridge          \* its fields, its LLM clients, its timers, its cache record

slotVars == <<tz, slotsQuery>>

bookVars == <<appointments, toolPc, toolReq, apptResult, toolResult,
              freeAtInvoke, inserted, confirmationNumber, overlap, dispatchLog,
              slotVars, audio, cache>>

vars == <<bookVars, bridge>>

\* everything but the audio being converted
serviceVars == <<appointments, toolPc, toolReq, apptResult, toolResult, freeAtInvoke,
                 inserted, confirmationNumber, overlap, dispatchLog, slotVars, cache,
                 bridge>>

(***************************************************************************)
(* Part I.  Booking Store                                                  *)
(***************************************************************************)
Row(d, t, n, c) ==
  [date |-> d, time |-> t, confirmation_number |-> n, call_sid |-> c,
   status |-> "confirmed"]

\* SELECT id FROM appointments WHERE appointment_date = ? AND
\* appointment_time = ? AND status = 'confirmed'
isSlotBookedNever(date, time) == FALSE

isSlotBooked(date, time) ==
  \E i \in DOMAIN appointments :
    /\ appointments[i].date = date
    /\ appointments[i].time = time
    /\ appointments[i].status = "confirmed"

\* The constraints of the schema that make an INSERT throw: only
\* confirmation_number is UNIQUE; (appointment_date, appointment_time) has a
\* plain index.
insertViolatesSchema(date, time, n) ==
  \E i \in DOMAIN appointments : appointments[i].confirmation_number = n

\* The table after insertAppointment(params) when the INSERT is accepted.
insertAppointment(date, time, n, c) == Append(appointments, Row(date, time, n, c))

ConfirmedRows(d, t) ==
  {i \in DOMAIN appointments :
     /\ appointments[i].date = d /\ appointments[i].time = t
     /\ appointments[i].status = "confirmed"}

InitCalls ==
  /\ toolPc = [c \in Calls |-> "idle"]
  /\ toolReq = [c \in Calls |-> NoReq]
  /\ apptResult = [c \in Calls |-> NoResult]
  /\ toolResult = [c \in Calls |-> NoResult]
  /\ freeAtInvoke = [c \in Calls |-> FALSE]
  /\ inserted = [c \in Calls |-> FALSE]
  /\ confirmationNumber = [c \in Calls |-> 0]
  /\ overlap = [c \in Calls |-> {}]
  /\ dispatchLog = [c \in Calls |-> <<>>]

InitBooking == appointments = <<>> /\ InitCalls

\* case 'response.function_call_arguments.done' with name create_appointment:
\* the handler parses the arguments and suspends on
\* `await updateCallStatus(callSid, { aiStatus: 'processing_tool' })`.
FunctionCallReceivedFor(c, dates, times) ==
  /\ toolPc[c] \in {"idle", "done"}
  /\ Len(appointments) < MaxRows
  /\ \E d \in dates, t \in times :
       /\ toolReq' = [toolReq EXCEPT ![c] = [date |-> d, time |-> t]]
       /\ freeAtInvoke' = [freeAtInvoke EXCEPT ![c] = ~isSlotBooked(d, t)]
       /\ overlap' = [k \in Calls |->
            IF k = c
              THEN {o \in Calls \ {c} :
                      /\ toolPc[o] \notin {"idle", "done"}
                      /\ toolReq[o] = [date |-> d, time |-> t]}
            ELSE IF toolPc[k] \notin {"idle", "done"}
                    /\ toolReq[k] = [date |-> d, time |-> t]
              THEN overlap[k] \cup {c}
            ELSE overlap[k] \ {c}]
  /\ toolPc' = [toolPc EXCEPT ![c] = "updateStatus"]
  /\ apptResult' = [apptResult EXCEPT ![c] = NoResult]
  /\ toolResult' = [toolResult EXCEPT ![c] = NoResult]
  /\ inserted' = [inserted EXCEPT ![c] = FALSE]
  /\ confirmationNumber' = [confirmationNumber EXCEPT ![c] = 0]
  /\ dispatchLog' = [dispatchLog EXCEPT ![c] = <<>>]
  /\ UNCHANGED appointments

FunctionCallReceived(c) == FunctionCallReceivedFor(c, Dates, Times)

\* dates and times the LLM may put in the arguments: a Tuesday and a Saturday;
\* a slot label, the lunch hour, and a time in the HH:MM form
RequestDates == {"2026-02-10", "2026-02-14"}
RequestTimes == {"10:30 AM", "12:30 PM", "10:30"}

\* create_appointment with any arguments
AnyFunctionCallReceived(c) == FunctionCallReceivedFor(c, RequestDates, RequestTimes)

\* updateCallStatus settled; executeToolCall -> createAppointment runs without
\* suspending through isSlotBooked, the confirmation number and
\* insertAppointment, up to `await incrementCounter('appointments_booked')`.
CreateAppointment(c) ==
  /\ toolPc[c] = "updateStatus"
  /\ LET d == toolReq[c].date
         t == toolReq[c].time
     IN IF isSlotBooked(d, t)
          THEN /\ apptResult' = [apptResult EXCEPT ![c] = Failure(SlotTakenMsg)]
               /\ toolPc' = [toolPc EXCEPT ![c] = "logging"]
               /\ UNCHANGED <<appointments, inserted, confirmationNumber>>
          ELSE \E n \in ConfNumbers :
                 IF insertViolatesSchema(d, t, n)
                   THEN \* INSERT throws; caught by createAppointment
                        /\ apptResult' = [apptResult EXCEPT ![c] = Failure(DbErrorMsg)]
                        /\ toolPc' = [toolPc EXCEPT ![c] = "logging"]
                        /\ confirmationNumber' = [confirmationNumber EXCEPT ![c] = n]
                        /\ UNCHANGED <<appointments, inserted>>
                   ELSE /\ appointments' = insertAppointment(d, t, n, c)
                        /\ inserted' = [inserted EXCEPT ![c] = TRUE]
                        /\ confirmationNumber' = [confirmationNumber EXCEPT ![c] = n]
                        /\ toolPc' = [toolPc EXCEPT ![c] = "incrementCounter"]
                        /\ UNCHANGED apptResult
  /\ UNCHANGED <<toolReq, toolResult, freeAtInvoke, overlap, dispatchLog>>

\* insertAppointment(params) called on its own, without createAppointment's
\* pre-check (the store's exported operation).
InsertAppointmentDirect(c) ==
  /\ toolPc[c] \in {"idle", "done"}
  /\ Len(appointments) < MaxRows
  /\ \E d \in Dates, t \in Times, n \in ConfNumbers :
       /\ ~insertViolatesSchema(d, t, n)
       /\ appointments' = insertAppointment(d, t, n, c)
  /\ UNCHANGED <<toolPc, toolReq, apptResult, toolResult, freeAtInvoke, inserted,
                 confirmationNumber, overlap, dispatchLog>>

\* The handler's first await rejected (Session Cache failure): the async
\* message callback ends with an unhandled rejection; no tool runs and nothing
\* is sent to the LLM.
UpdateStatusRejected(c) ==
  /\ toolPc[c] = "updateStatus"
  /\ toolPc' = [toolPc EXCEPT ![c] = "done"]
  /\ UNCHANGED <<appointments, toolReq, apptResult, toolResult, freeAtInvoke,
                 inserted, confirmationNumber, overlap, dispatchLog>>

\* `await incrementCounter(...)` settles inside createAppointment's try block:
\* resolved -> { success: true, confirmation_number }, rejected -> the catch
\* returns { success: false, error: 'Database error ...' }.
IncrementCounterSettled(c) ==
  /\ toolPc[c] = "incrementCounter"
  /\ \E ok \in BOOLEAN :
       apptResult' = [apptResult EXCEPT ![c] =
                        IF ok THEN Success(confirmationNumber[c])
                              ELSE Failure(DbErrorMsg)]
  /\ toolPc' = [toolPc EXCEPT ![c] = "logging"]
  /\ UNCHANGED <<appointments, toolReq, toolResult, freeAtInvoke, inserted,
                 confirmationNumber, overlap, dispatchLog>>

\* The rest of executeToolCall: updateCallStatus (on success), trackMetric and
\* the two saveTranscript calls, all awaited inside its try block; any
\* rejection makes it return { error: true, message }.
ExecuteToolCallReturns(c) ==
  /\ toolPc[c] = "logging"
  /\ \E ok \in BOOLEAN, saved \in 0..2 :
       /\ ok => saved = 2
       /\ toolResult' = [toolResult EXCEPT ![c] = IF ok THEN apptResult[c] ELSE ToolError]
       /\ dispatchLog' = [dispatchLog EXCEPT ![c] =
                            SubSeq(<<"function_call", "function_result">>, 1, saved)]
  /\ toolPc' = [toolPc EXCEPT ![c] = "done"]
  /\ UNCHANGED <<appointments, toolReq, apptResult, freeAtInvoke, inserted,
                 confirmationNumber, overlap>>

\* case 'response.function_call_arguments.done' with a name that is neither
\* list_available_slots nor create_appointment: the handler suspends on the
\* same `await updateCallStatus(...)`.
UnknownFunctionCallReceived(c) ==
  /\ toolPc[c] \in {"idle", "done"}
  /\ toolPc' = [toolPc EXCEPT ![c] = "updateStatusUnknown"]
  /\ toolReq' = [toolReq EXCEPT ![c] = NoReq]
  /\ apptResult' = [apptResult EXCEPT ![c] = NoResult]
  /\ toolResult' = [toolResult EXCEPT ![c] = NoResult]
  /\ inserted' = [inserted EXCEPT ![c] = FALSE]
  /\ confirmationNumber' = [confirmationNumber EXCEPT ![c] = 0]
  /\ dispatchLog' = [dispatchLog EXCEPT ![c] = <<>>]
  /\ overlap' = [k \in Calls |-> IF k = c THEN {} ELSE overlap[k] \ {c}]
  /\ UNCHANGED <<appointments, freeAtInvoke>>

\* updateCallStatus settled; executeToolCall's switch takes `default: throw`,
\* its catch returns { error: true, message } and neither saveTranscript call
\* is reached.  A rejected updateCallStatus ends the handler before that.
UnknownToolDispatched(c) ==
  /\ toolPc[c] = "updateStatusUnknown"
  /\ \E ok \in BOOLEAN :
       toolResult' = [toolResult EXCEPT ![c] = IF ok THEN ToolError ELSE NoResult]
  /\ toolPc' = [toolPc EXCEPT ![c] = "done"]
  /\ UNCHANGED <<appointments, toolReq, apptResult, freeAtInvoke, inserted,
                 confirmationNumber, overlap, dispatchLog>>


(***************************************************************************)
(* list_available_slots                                                    *)
(***************************************************************************)
\* the dates queried, with the day number (days since 1970-01-01) that Date
\* parsing gives each: Tue 10, Fri 13, Sat 14, Sun 15, Mon 16 February 2026
EpochDay ==
  ("2026-02-10" :> 20494) @@ ("2026-02-13" :> 20497) @@ ("2026-02-14" :> 20498) @@
  ("2026-02-15" :> 20499) @@ ("2026-02-16" :> 20500)

SlotDates == DOMAIN EpochDay

\* UTC offsets of the server: Pacific/Pago_Pago, America/New_York, UTC,
\* Pacific/Fiji, Pacific/Auckland (daylight time)
TZOffsets == {0 - 11, 0 - 5, 0, 12, 13}

NoQuery == [date |-> "", available_slots |-> <<>>]

InitSlots == tz = 0 /\ slotsQuery = NoQuery

\* formatTime(hour, minute)
formatTime(hour, minute) ==
  LET period == IF hour >= 12 THEN "PM" ELSE "AM"
      displayHour == IF hour > 12 THEN hour - 12 ELSE IF hour = 0 THEN 12 ELSE hour
  IN ToString(displayHour) \o ":"
       \o (IF minute < 10 THEN "0" \o ToString(minute) ELSE ToString(minute))
       \o " " \o period

\* the loop of generateAllSlots from `hour` on
RECURSIVE slotsFromHour(_)
slotsFromHour(hour) ==
  IF hour >= 17 THEN <<>>
  ELSE IF hour = 12 THEN slotsFromHour(hour + 1)
  ELSE <<formatTime(hour, 0), formatTime(hour, 30)>> \o slotsFromHour(hour + 1)

generateAllSlots == slotsFromHour(9)

\* getBookedSlots(date)
getBookedSlots(date) ==
  {appointments[i].time : i \in {j \in DOMAIN appointments :
                                  /\ appointments[j].date = date
                                  /\ appointments[j].status = "confirmed"}}

\* new Date(date + 'T12:00:00').getUTCDay(): the text has no offset, so it is
\* noon local time; 1970-01-01 was a Thursday (4)
getUTCDay(date) ==
  LET utcHours == EpochDay[date] * 24 + 12 - tz
  IN ((utcHours \div 24) + 4) % 7

\* listAvailableSlots(date).available_slots
listAvailableSlots(date) ==
  LET day == getUTCDay(date) IN
  IF day = 0 \/ day = 6 THEN <<>>
  ELSE LET booked == getBookedSlots(date)
           keep(label) == label \notin booked
       IN SelectSeq(generateAllSlots, keep)

\* executeToolCall, case 'list_available_slots': the result is computed
\* before the first await
ListAvailableSlots ==
  /\ \E date \in SlotDates :
       slotsQuery' = [date |-> date, available_slots |-> listAvailableSlots(date)]
  /\ UNCHANGED <<appointments, toolPc, toolReq, apptResult, toolResult,
                 freeAtInvoke, inserted, confirmationNumber, overlap, dispatchLog,
                 tz, audio, cache, bridge>>

(***************************************************************************)
(* Part II.  Stream bridge (TwilioStreamHandler) and its LLM clients       *)
(*                                                                         *)
(* Node runs each handler to completion; a handler is suspended only at an *)
(* await of I/O or of a timer.  A promise settled inside a handler resumes *)
(* its awaiter before any other event is dispatched, so the handler and    *)
(* that continuation form one step.                                        *)
(***************************************************************************)
NoClient == 0
NullItem == "null"

\* new OpenAIRealtimeClient(...) followed by connect(): the socket is being
\* opened and the 10 s connect timer is armed.
NewClient(kind, start) ==
  [sock |-> "connecting",        \* readyState of the WebSocket it created
   ws |-> TRUE,                  \* this.ws is not null
   closed |-> FALSE,             \* this.closed
   connectTimeout |-> TRUE,      \* connectTimeout is armed
   kind |-> kind,                \* which callbacks it got: "initial" | "reconnect"
   start |-> start,              \* the start whose initializeCall awaits connect()
   state |-> "idle",             \* this.state
   currentResponseItemId |-> NullItem,
   aiAudioStartMs |-> 0,
   first |-> "none"]             \* type of the first message sent on its socket

InitBridge ==
  [alive |-> TRUE,
   twilioWs |-> "open",
   openai |-> NoClient,
   clients |-> <<>>,
   inits |-> <<>>,               \* one initializeCall per start event: its position
   callTimeoutArmed |-> FALSE,   \* this.callTimeout refers to an armed timer
   durationTimers |-> 0,         \* armed duration timers
   hardCuts |-> 0,               \* armed hard-cut timers
   reconnectAttempts |-> 0,
   backoffs |-> 0,               \* attemptReconnect invocations sleeping in backoff
   delays |-> <<>>,              \* the delay of every backoff started, in ms
   session |-> "none",           \* Session Cache: status of session:<callSid>
   endPc |-> "idle",             \* position of endSession(callSid, reason)
   endRecords |-> 0,             \* end-of-call writes applied to the Session Cache
   endReason |-> "none",         \* reason of the effective teardown
   \* what the last step did
   handled |-> "init",            \* the event handled
   client |-> NoClient,          \* the LLM client whose socket delivered it
   cleanupReason |-> "none",
   sentLLM |-> <<>>,
   sentTwilio |-> <<>>,
   executed |-> FALSE,           \* executeTool was invoked
   audioMs |-> 0,                \* AI audio delivered to telephony for the current item
   twilioLog |-> <<>>]           \* frames sent to telephony, with barge-in marks

\* Every step starts with nothing sent and no teardown requested.
Begin(b, event) ==
  [b EXCEPT !.handled = event, !.client = NoClient, !.cleanupReason = "none",
            !.sentLLM = <<>>, !.sentTwilio = <<>>, !.executed = FALSE]

\* ws.send without the readyState check
SendUnchecked(b, c, msg) ==
  [b EXCEPT !.sentLLM = Append(@, [to |-> c, msg |-> msg]),
            !.clients[c].first = IF @ = "none" THEN msg.type ELSE @]

\* OpenAIRealtimeClient.send
Send(b, c, msg) ==
  IF b.clients[c].ws /\ b.clients[c].sock = "open"
    THEN [b EXCEPT !.sentLLM = Append(@, [to |-> c, msg |-> msg]),
                   !.clients[c].first = IF @ = "none" THEN msg.type ELSE @]
    ELSE b

\* this.openai?.send(...)
OpenaiSend(b, msg) == IF b.openai = NoClient THEN b ELSE Send(b, b.openai, msg)

\* OpenAIRealtimeClient.close: an open socket starts its closing handshake, any
\* other is terminated (its close event then clears the connect timer).
ClientClose(b, c) ==
  LET cl == b.clients[c] IN
  [b EXCEPT !.clients[c] =
     [cl EXCEPT !.closed = TRUE,
                !.ws = FALSE,
                !.sock = IF ~cl.ws THEN cl.sock
                         ELSE IF cl.sock = "open" THEN "closing"
                         ELSE "closed",
                !.connectTimeout = IF cl.ws THEN FALSE ELSE cl.connectTimeout]]

OpenaiCloseSkipped(b) == b

\* this.openai?.close()
OpenaiClose(b) == IF b.openai = NoClient THEN b ELSE ClientClose(b, b.openai)

CleanupUnguarded(b, reason) ==
  LET b1 == [b EXCEPT !.cleanupReason = reason,
                      !.alive = FALSE,
                      !.endReason = reason,
                      !.callTimeoutArmed = FALSE,
                      !.durationTimers = IF b.callTimeoutArmed THEN @ - 1 ELSE @]
      b2 == OpenaiClose(b1)
  IN [b2 EXCEPT !.openai = NoClient,
                !.twilioWs = IF @ = "open" THEN "closing" ELSE @,
                !.endPc = "get"]

\* TwilioStreamHandler.cleanup
Cleanup(b, reason) ==
  IF ~b.alive
    THEN [b EXCEPT !.cleanupReason = reason]
    ELSE LET b1 == [b EXCEPT !.cleanupReason = reason,
                             !.alive = FALSE,
                             !.endReason = reason,
                             !.callTimeoutArmed = FALSE,
                             !.durationTimers = IF b.callTimeoutArmed THEN @ - 1 ELSE @]
             b2 == OpenaiClose(b1)
         IN [b2 EXCEPT !.openai = NoClient,
                       !.twilioWs = IF @ = "open" THEN "closing" ELSE @,
                       !.endPc = "get"]

\* TwilioStreamHandler.attemptReconnect up to its `await` of the backoff timer
AttemptReconnect(b) ==
  IF b.reconnectAttempts >= MAX_RECONNECT
    THEN Cleanup(b, "openai_reconnect_exhausted")
    ELSE [b EXCEPT !.reconnectAttempts = @ + 1, !.backoffs = @ + 1,
                   !.delays = Append(@, BackoffUnitMs * (b.reconnectAttempts + 1))]

\* the onClose callback the client was constructed with
OnClose(b, c) ==
  IF b.clients[c].kind = "initial"
    THEN IF b.alive THEN AttemptReconnect(b) ELSE b
    ELSE LET b1 == [b EXCEPT !.reconnectAttempts = @ + 1] IN
         IF b1.alive /\ b1.reconnectAttempts < MAX_RECONNECT
           THEN AttemptReconnect(b1)
         ELSE IF b1.alive
           THEN Cleanup(b1, "openai_reconnect_exhausted")
         ELSE b1

\* this.ws.on('close'): the socket of client c is closed
CloseEvent(b, c) ==
  LET b1 == [b EXCEPT !.clients[c].sock = "closed",
                      !.clients[c].connectTimeout = FALSE]
  IN IF ~b1.clients[c].closed THEN OnClose(b1, c) ELSE b1

(***************************************************************************)
(* Telephony socket events                                                 *)
(***************************************************************************)
\* case 'start': the fields are set and initializeCall suspends on
\* `await createSession(...)`.
StartEvent(limit) ==
  /\ bridge.twilioWs # "closed"
  /\ Len(bridge.inits) < limit
  /\ bridge' = [Begin(bridge, "twilio.start") EXCEPT
                  !.inits = Append(@, "createSession")]
  /\ UNCHANGED bookVars

TwilioStart == StartEvent(MaxStarts)

\* a telephony peer that sends start once more on the same socket
TwilioStartRepeated == StartEvent(MaxStarts + 1)

\* createSession settled.  Resolved: the cache holds an active session, the
\* client is constructed and connect() is awaited.  Rejected: initializeCall
\* throws out of the message handler.
CreateSessionSettled ==
  /\ \E i \in DOMAIN bridge.inits, ok \in BOOLEAN :
       /\ bridge.inits[i] = "createSession"
       /\ LET b == Begin(bridge, "createSession.settled") IN
          bridge' =
            IF ok
              THEN [b EXCEPT !.session = "active",
                             !.clients = Append(@, NewClient("initial", i)),
                             !.openai = Len(b.clients) + 1,
                             !.inits[i] = "connect"]
              ELSE [b EXCEPT !.inits[i] = "failed"]
  /\ UNCHANGED bookVars

\* case 'stop'
TwilioStop ==
  /\ bridge.twilioWs # "closed"
  /\ bridge' = Cleanup(Begin(bridge, "twilio.stop"), "twilio_stop")
  /\ UNCHANGED bookVars

\* twilioWs 'close': the peer closed, or the closing handshake that cleanup
\* started has completed.
TwilioClose ==
  /\ bridge.twilioWs # "closed"
  /\ bridge' = Cleanup([Begin(bridge, "twilio.close") EXCEPT !.twilioWs = "closed"],
                       "twilio_closed")
  /\ UNCHANGED bookVars

(***************************************************************************)
(* LLM socket events                                                       *)
(***************************************************************************)
\* ws 'open': the connect timer is cleared, session.update is sent and the
\* promise of connect() resolves.  initializeCall then arms the duration
\* timer; attemptReconnect only logs.
LLMOpen ==
  /\ \E c \in DOMAIN bridge.clients :
       /\ bridge.clients[c].sock = "connecting"
       /\ LET b1 == [Begin(bridge, "llm.open") EXCEPT
                       !.clients[c].sock = "open",
                       !.clients[c].connectTimeout = FALSE]
              b2 == Send(b1, c, [type |-> "session.update"])
          IN bridge' =
               IF b2.clients[c].kind = "initial"
                 THEN [b2 EXCEPT !.inits[b2.clients[c].start] = "done",
                                 !.callTimeoutArmed = TRUE,
                                 !.durationTimers = @ + 1]
                 ELSE b2
  /\ UNCHANGED bookVars

\* The handshake fails: 'error' clears the connect timer and logs, 'close'
\* follows.  The promise of connect() is settled by neither.
LLMHandshakeFails ==
  /\ \E c \in DOMAIN bridge.clients :
       /\ bridge.clients[c].sock = "connecting"
       /\ bridge' = CloseEvent(Begin(bridge, "llm.handshake_failed"), c)
  /\ UNCHANGED bookVars

\* The 10 s connect timer fires: reject, then this.ws?.close() aborts the
\* handshake ('close' is emitted), then the awaiter's catch block runs.
ConnectTimeout ==
  /\ \E c \in DOMAIN bridge.clients :
       /\ bridge.clients[c].connectTimeout
       /\ bridge.clients[c].sock = "connecting"
       /\ LET b1 == CloseEvent(Begin(bridge, "llm.connect_timeout"), c) IN
          bridge' =
            IF b1.clients[c].kind = "initial"
              THEN Cleanup([b1 EXCEPT !.inits[b1.clients[c].start] = "failed"],
                           "openai_connect_failed")
            ELSE IF b1.alive THEN AttemptReconnect(b1)
            ELSE b1
  /\ UNCHANGED bookVars

\* The LLM peer (or the network) closes an open socket.
LLMPeerClose ==
  /\ \E c \in DOMAIN bridge.clients :
       /\ bridge.clients[c].sock = "open"
       /\ bridge' = CloseEvent(Begin(bridge, "llm.close"), c)
  /\ UNCHANGED bookVars

\* The closing handshake started by close() completes.
LLMCloseCompletes ==
  /\ \E c \in DOMAIN bridge.clients :
       /\ bridge.clients[c].sock = "closing"
       /\ bridge' = CloseEvent(Begin(bridge, "llm.closed"), c)
  /\ UNCHANGED bookVars

(***************************************************************************)
(* Timers                                                                  *)
(***************************************************************************)
\* attemptReconnect after its backoff
\* attemptReconnect after its sleep, without `if (!this.alive) return`
reconnectAfterBackoffUnguarded(b) ==
  LET b2 == OpenaiClose(b) IN
  [b2 EXCEPT !.clients = Append(@, NewClient("reconnect", 0)),
             !.openai = Len(b2.clients) + 1]

\* attemptReconnect after its sleep: nothing on an ended call, else the old
\* client is closed and a new one connects
reconnectAfterBackoff(b) ==
  IF ~b.alive THEN b
  ELSE LET b2 == OpenaiClose(b) IN
       [b2 EXCEPT !.clients = Append(@, NewClient("reconnect", 0)),
                  !.openai = Len(b2.clients) + 1]

BackoffElapsed ==
  /\ bridge.backoffs > 0
  /\ bridge' = reconnectAfterBackoff(
                 [Begin(bridge, "backoff.elapsed") EXCEPT !.backoffs = @ - 1])
  /\ UNCHANGED bookVars

\* onCallTimeout.  `current` tells whether the timer that fires is the one
\* this.callTimeout refers to or one armed by an earlier initializeCall.
DurationTimerFires ==
  /\ \E current \in BOOLEAN :
       /\ IF current THEN bridge.callTimeoutArmed
          ELSE bridge.durationTimers > (IF bridge.callTimeoutArmed THEN 1 ELSE 0)
       /\ LET b1 == [Begin(bridge, "timer.duration") EXCEPT
                       !.durationTimers = @ - 1,
                       !.callTimeoutArmed = IF current THEN FALSE ELSE @,
                       !.hardCuts = @ + 1]
              b2 == OpenaiSend(b1, [type |-> "conversation.item.create",
                                    role |-> "user"])
          IN bridge' = OpenaiSend(b2, [type |-> "response.create"])
  /\ UNCHANGED bookVars

\* the hard cut, 15 s after onCallTimeout
HardCutFires ==
  /\ bridge.hardCuts > 0
  /\ LET b1 == [Begin(bridge, "timer.hard_cut") EXCEPT !.hardCuts = @ - 1] IN
     bridge' = IF b1.alive THEN Cleanup(b1, "timeout_hard") ELSE b1
  /\ UNCHANGED bookVars

(***************************************************************************)
(* Session Cache: endSession(callSid, reason)                              *)
(***************************************************************************)
\* `await getSession(callSid)` settles
EndSessionGet ==
  /\ bridge.endPc = "get"
  /\ \E ok \in BOOLEAN :
       bridge' = [Begin(bridge, "endSession.get") EXCEPT
                    !.endPc = IF ~ok THEN "failed"
                              ELSE IF bridge.session = "none" THEN "nosession"
                              ELSE "set"]
  /\ UNCHANGED bookVars

\* `await redis.setex(key, 1800, session with status = 'ended')` settles
EndSessionSet ==
  /\ bridge.endPc = "set"
  /\ \E ok \in BOOLEAN :
       bridge' = IF ok
                   THEN [Begin(bridge, "endSession.set") EXCEPT
                           !.session = "ended", !.endRecords = @ + 1,
                           !.endPc = "done"]
                   ELSE [Begin(bridge, "endSession.set") EXCEPT !.endPc = "failed"]
  /\ UNCHANGED bookVars

(***************************************************************************)
(* Part III.  Conversation: OpenAIRealtimeClient.handleEvent and the       *)
(* callbacks TwilioStreamHandler gave the client                           *)
(***************************************************************************)
Items == {"I1", "I2"}

LLMEvents ==
  {[type |-> t, item_id |-> NullItem] :
     t \in {"session.created", "session.updated",
            "input_audio_buffer.speech_started",
            "input_audio_buffer.speech_stopped",
            "response.audio.done",
            "response.function_call_arguments.done"}}
  \cup {[type |-> "response.audio.delta", item_id |-> i] : i \in Items}

clearTwilioAudioBufferSkipped(b) == b

\* TwilioStreamHandler.clearTwilioAudioBuffer
clearTwilioAudioBuffer(b) ==
  IF b.twilioWs # "open" THEN b
  ELSE [b EXCEPT !.sentTwilio = Append(@, "clear"),
                 !.twilioLog = Append(@, "clear")]

sendAudioToTwilioTwice(b) ==
  IF b.twilioWs # "open" \/ ~b.alive THEN b
  ELSE [b EXCEPT !.sentTwilio = @ \o <<"media", "media">>,
                 !.twilioLog = @ \o <<"media", "media">>,
                 !.audioMs = @ + 2 * FrameMs]

\* TwilioStreamHandler.sendAudioToTwilio
sendAudioToTwilio(b) ==
  IF b.twilioWs # "open" \/ ~b.alive THEN b
  ELSE [b EXCEPT !.sentTwilio = Append(@, "media"),
                 !.twilioLog = Append(@, "media"),
                 !.audioMs = @ + FrameMs]

\* OpenAIRealtimeClient.cancelResponse
cancelResponse(b, c) ==
  LET cl == b.clients[c] IN
  IF cl.state = "ai_speaking"
    THEN LET b1 == Send(b, c, [type |-> "response.cancel"])
             b2 == IF cl.currentResponseItemId # NullItem
                     THEN Send(b1, c, [type |-> "conversation.item.truncate",
                                       item_id |-> cl.currentResponseItemId,
                                       content_index |-> 0,
                                       audio_end_ms |-> cl.aiAudioStartMs])
                     ELSE b1
         IN [b2 EXCEPT !.clients[c].state = "idle"]
    ELSE b

\* the onSpeechStarted callback (the same for the initial and a reconnected
\* client): clearTwilioAudioBuffer(), then this.openai?.cancelResponse()
onSpeechStarted(b) ==
  LET b1 == clearTwilioAudioBuffer(b) IN
  IF b1.openai = NoClient THEN b1 ELSE cancelResponse(b1, b1.openai)

\* OpenAIRealtimeClient.handleFunctionCall: executeTool runs synchronously
handleFunctionCall(b, c) ==
  LET b1 == [b EXCEPT !.clients[c].state = "processing_tool",
                      !.executed = TRUE]
      b2 == Send(b1, c, [type |-> "conversation.item.create",
                         item |-> "function_call_output"])
      b3 == Send(b2, c, [type |-> "response.create"])
  IN [b3 EXCEPT !.clients[c].state = "idle"]

\* OpenAIRealtimeClient.handleEvent on client c
handleEvent(b, c, event) ==
  CASE event.type = "input_audio_buffer.speech_started" ->
         LET barge == b.clients[c].state = "ai_speaking"
             b1 == [b EXCEPT !.clients[c].state = "user_speaking",
                             !.twilioLog = IF barge THEN Append(@, "barge") ELSE @]
         IN onSpeechStarted(b1)
    [] event.type = "input_audio_buffer.speech_stopped" ->
         [b EXCEPT !.clients[c].state = "idle"]
    [] event.type = "response.audio.delta" ->
         LET b1 == [b EXCEPT !.clients[c].state = "ai_speaking",
                             !.clients[c].currentResponseItemId = event.item_id,
                             !.audioMs = IF b.clients[c].currentResponseItemId
                                            = event.item_id THEN @ ELSE 0]
         IN sendAudioToTwilio(b1)
    [] event.type = "response.audio.done" ->
         [b EXCEPT !.clients[c].state = "idle",
                   !.clients[c].currentResponseItemId = NullItem]
    [] event.type = "response.function_call_arguments.done" ->
         handleFunctionCall(b, c)
    [] OTHER -> b

\* ws 'message' on the socket of client c.  The listener stays attached until
\* the socket is closed, so a message in flight during the closing handshake
\* is handled too.
LLMMessageOf(events) ==
  /\ \E c \in DOMAIN bridge.clients, event \in events :
       /\ bridge.clients[c].sock \in {"open", "closing"}
       /\ LET b1 == handleEvent([Begin(bridge, event.type) EXCEPT !.client = c],
                                c, event)
          IN Len(b1.twilioLog) <= MaxLog /\ bridge' = b1
  /\ UNCHANGED bookVars

LLMMessage == LLMMessageOf(LLMEvents)

\* the events whose handling sends on the LLM socket
SendingEvents ==
  {e \in LLMEvents : e.type \in {"input_audio_buffer.speech_started",
                                 "response.function_call_arguments.done"}}

LLMSendingMessage == LLMMessageOf(SendingEvents)


\* ws 'message' carrying session.created
LLMSessionCreated ==
  /\ \E c \in DOMAIN bridge.clients :
       /\ bridge.clients[c].sock \in {"open", "closing"}
       /\ bridge' = handleEvent([Begin(bridge, "session.created") EXCEPT !.client = c],
                                c, [type |-> "session.created", item_id |-> NullItem])
  /\ UNCHANGED bookVars

(***************************************************************************)
(* Part IV.  Raw frames: the 'message' handlers of the two sockets, from   *)
(* the text received to the dispatch                                       *)
(***************************************************************************)
\* texts the telephony peer may send (start is StartEvent)
TwilioFrames ==
  {"{\"event\":\"connected\"}", "{\"event\":\"media\"}", "{\"event\":\"mark\"}",
   "{\"event\":\"stop\"}", "{\"event\":\"stop\"", "stop", ""}

\* texts the LLM peer may send
LLMFrames ==
  {"{\"type\":\"session.created\"}",
   "{\"type\":\"response.audio.delta\",\"item_id\":\"I1\"}",
   "{\"type\":\"input_audio_buffer.speech_started\"}",
   "{\"type\":\"response.audio.done\"}",
   "{\"type\":\"response.audio.done\"", "[DONE]]", ""}

\* the value of each text above that is a JSON text
JSONValue ==
  ("{\"event\":\"connected\"}" :> [event |-> "connected"]) @@
  ("{\"event\":\"media\"}" :> [event |-> "media"]) @@
  ("{\"event\":\"mark\"}" :> [event |-> "mark"]) @@
  ("{\"event\":\"stop\"}" :> [event |-> "stop"]) @@
  ("{\"type\":\"session.created\"}" :>
     [type |-> "session.created", item_id |-> NullItem]) @@
  ("{\"type\":\"response.audio.delta\",\"item_id\":\"I1\"}" :>
     [type |-> "response.audio.delta", item_id |-> "I1"]) @@
  ("{\"type\":\"input_audio_buffer.speech_started\"}" :>
     [type |-> "input_audio_buffer.speech_started", item_id |-> NullItem]) @@
  ("{\"type\":\"response.audio.done\"}" :>
     [type |-> "response.audio.done", item_id |-> NullItem])

\* a parser that completes an object whose closing brace is missing
JSONParseLenient(raw) ==
  IF raw \in DOMAIN JSONValue THEN [ok |-> TRUE, value |-> JSONValue[raw]]
  ELSE IF (raw \o "}") \in DOMAIN JSONValue
    THEN [ok |-> TRUE, value |-> JSONValue[raw \o "}"]]
  ELSE [ok |-> FALSE]

\* JSON.parse(raw.toString()): the value, or a SyntaxError thrown
JSONParse(raw) ==
  IF raw \in DOMAIN JSONValue THEN [ok |-> TRUE, value |-> JSONValue[raw]]
  ELSE [ok |-> FALSE]

\* OpenAIRealtimeClient.appendAudio
appendAudio(b, c) == Send(b, c, [type |-> "input_audio_buffer.append"])

\* TwilioStreamHandler.onTwilioMessage for the events it handles without
\* suspending
onTwilioMessage(b, raw) ==
  LET parsed == JSONParse(raw)
      b0 == Begin(b, raw)
  IN IF ~parsed.ok THEN b0              \* catch: log and return
     ELSE IF parsed.value.event = "media"
       THEN IF b0.openai = NoClient \/ ~b0.alive THEN b0
            ELSE appendAudio(b0, b0.openai)
     ELSE IF parsed.value.event = "stop" THEN Cleanup(b0, "twilio_stop")
     ELSE b0                            \* connected, mark

\* this.ws.on('message') of client c
onLLMMessage(b, c, raw) ==
  LET parsed == JSONParse(raw)
      b0 == [Begin(b, raw) EXCEPT !.client = c]
  IN IF ~parsed.ok THEN b0              \* catch: log
     ELSE handleEvent(b0, c, parsed.value)

MediaFrame == "{\"event\":\"media\"}"

\* ws 'message' on the telephony socket carrying a media event
TwilioMedia ==
  /\ bridge.twilioWs # "closed"
  /\ bridge' = onTwilioMessage(bridge, MediaFrame)
  /\ UNCHANGED bookVars

TwilioFrame ==
  /\ bridge.twilioWs # "closed"
  /\ \E raw \in TwilioFrames : bridge' = onTwilioMessage(bridge, raw)
  /\ UNCHANGED bookVars

LLMFrame ==
  /\ \E c \in DOMAIN bridge.clients, raw \in LLMFrames :
       /\ bridge.clients[c].sock \in {"open", "closing"}
       /\ LET b1 == onLLMMessage(bridge, c, raw)
          IN Len(b1.twilioLog) <= MaxLog /\ bridge' = b1
  /\ UNCHANGED bookVars

(***************************************************************************)
(* Part V.  Audio conversion: the two mu-law codecs and the two resamplers *)
(***************************************************************************)
MULAW_BIAS == 132
MULAW_CLIP == 32635
Int16Min == 0 - 32768
Int16Max == 32767

Bytes == 0..255

Min(a, b) == IF a < b THEN a ELSE b
Max(a, b) == IF a > b THEN a ELSE b

\* audio-transcoder.ts, buildMulawDecodeTable: entry i of MULAW_DECODE_TABLE
pcmuDecodeTable(i) ==
  LET mulaw == 255 - i                      \* ~i & 0xff
      sign == mulaw \div 128                \* mulaw & 0x80
      exponent == (mulaw \div 16) % 8
      mantissa == ((mulaw % 16) * 16 + MULAW_BIAS) * 2^exponent
      sample == IF sign = 1 THEN 0 - (mantissa - MULAW_BIAS)
                            ELSE mantissa - MULAW_BIAS
  IN Max(Int16Min, Min(Int16Max, sample))

\* audio-transcoder.ts, expLut[k]
expLut(k) ==
  IF k < 2 THEN 0 ELSE IF k < 4 THEN 1 ELSE IF k < 8 THEN 2 ELSE IF k < 16 THEN 3
  ELSE IF k < 32 THEN 4 ELSE IF k < 64 THEN 5 ELSE IF k < 128 THEN 6 ELSE 7

\* audio-transcoder.ts, buildMulawEncodeTable: the entry for the sample i
pcmuEncodeTable(i) ==
  LET sign == IF i < 0 THEN 128 ELSE 0
      abs == IF i < 0 THEN 0 - i ELSE i
      sample == Min(abs, MULAW_CLIP) + MULAW_BIAS
      exponent == expLut((sample \div 128) % 256)
      mantissa == ((sample \div 2^exponent) \div 8) % 16
  IN 255 - (sign + exponent * 16 + mantissa)

\* audio-transcoder.ts, pcmuToPcm16
pcmuToPcm16(pcmu) == [i \in 1..Len(pcmu) |-> pcmuDecodeTable(pcmu[i])]

\* audio-transcoder.ts, pcm16ToPcmu
pcm16ToPcmu(pcm16) == [i \in 1..Len(pcm16) |-> pcmuEncodeTable(pcm16[i])]

\* utils/logger.ts, initDecodingTable: entry i of MULAW_DECODE_TABLE (an
\* Int16Array stores -0 as 0)
codecDecodeTable(i) ==
  LET mulaw == 255 - i
      sign == mulaw \div 128
      exponent == (mulaw \div 16) % 8
      mantissa == mulaw % 16
      magnitude == (mantissa * 8 + MULAW_BIAS) * 2^exponent - MULAW_BIAS
  IN IF sign = 1 THEN 0 - magnitude ELSE magnitude

\* the loop of linearToMuLaw from its i-th iteration: the first of the bits
\* 0x4000 >> i that is set in magnitude gives the exponent, 7 if none is
RECURSIVE exponentFrom(_, _)
exponentFrom(magnitude, i) ==
  IF i = 8 THEN 7
  ELSE IF (magnitude \div 2^(14 - i)) % 2 = 1 THEN 7 - i
  ELSE exponentFrom(magnitude, i + 1)

\* utils/logger.ts, linearToMuLaw
linearToMuLaw(sample) ==
  LET sign == IF sample < 0 THEN 128 ELSE 0
      abs == IF sample < 0 THEN 0 - sample ELSE sample
      magnitude == Min(abs, MULAW_CLIP) + MULAW_BIAS
      exponent == exponentFrom(magnitude, 0)
      mantissa == ((magnitude \div 2^exponent) \div 8) % 16
  IN 255 - (sign + exponent * 16 + mantissa)

\* utils/logger.ts, decodePCMU
decodePCMU(pcmu) == [i \in 1..Len(pcmu) |-> codecDecodeTable(pcmu[i])]

\* utils/logger.ts, encodePCMU
encodePCMU(pcm) == [i \in 1..Len(pcm) |-> linearToMuLaw(pcm[i])]

CodecImpls == {"audio-transcoder", "codec"}

MuLawDecode(impl, pcmu) ==
  IF impl = "audio-transcoder" THEN pcmuToPcm16(pcmu) ELSE decodePCMU(pcmu)

MuLawEncode(impl, pcm) ==
  IF impl = "audio-transcoder" THEN pcm16ToPcmu(pcm) ELSE encodePCMU(pcm)

\* every one-byte mu-law buffer, for either codec
InitCodec ==
  audio \in {[stage |-> "pcmu", impl |-> impl, origin |-> <<b>>, samples |-> <<b>>,
              trips |-> 0] : impl \in CodecImpls, b \in Bytes}

\* the buffer is decoded to PCM16
DecodeStep ==
  /\ audio.stage = "pcmu"
  /\ audio.trips < MaxTrips
  /\ audio' = [audio EXCEPT !.stage = "pcm16",
                            !.samples = MuLawDecode(audio.impl, audio.samples)]
  /\ UNCHANGED serviceVars

\* the PCM16 samples are encoded to mu-law again
EncodeStep ==
  /\ audio.stage = "pcm16"
  /\ audio' = [audio EXCEPT !.stage = "pcmu",
                            !.samples = MuLawEncode(audio.impl, audio.samples),
                            !.trips = @ + 1]
  /\ UNCHANGED serviceVars

\* Math.round(n / d) for d > 0: the nearest integer, halves upwards
RoundDiv(n, d) == (2 * n + d) \div (2 * d)

\* audio-transcoder.ts, resample8to24: linear interpolation between
\* neighbours, the last sample repeated
resample8to24(input8k) ==
  IF Len(input8k) = 0 THEN <<>>
  ELSE [k \in 1..(Len(input8k) * 3) |->
          LET i == (k - 1) \div 3
              j == (k - 1) % 3
          IN IF i = Len(input8k) - 1 THEN input8k[i + 1]
             ELSE LET s0 == input8k[i + 1]
                      s1 == input8k[i + 2]
                  IN CASE j = 0 -> s0
                       [] j = 1 -> RoundDiv(2 * s0 + s1, 3)
                       [] OTHER -> RoundDiv(s0 + 2 * s1, 3)]

resample24to8Shifted(input24k) ==
  [k \in 1..(Len(input24k) \div 3) |-> input24k[(k - 1) * 3 + 2]]

\* audio-transcoder.ts, resample24to8: every third sample
resample24to8(input24k) ==
  [k \in 1..(Len(input24k) \div 3) |-> input24k[(k - 1) * 3 + 1]]

\* the body of the loops of resample8kTo24k and resample24kTo8k: the sample at
\* srcPos = pos / den, with idx0 = floor(srcPos) and frac = srcPos - idx0
interpolate(input, pos, den) ==
  LET idx0 == pos \div den
      idx1 == Min(idx0 + 1, Len(input) - 1)
      fracNum == pos % den
  IN RoundDiv(input[idx0 + 1] * (den - fracNum) + input[idx1 + 1] * fracNum, den)

\* resample8kTo24k: srcPos = i / 3
resample8kTo24k(input) ==
  [k \in 1..(Len(input) * 3) |-> interpolate(input, k - 1, 3)]

\* resample24kTo8k: srcPos = i * 3
resample24kTo8k(input) ==
  [k \in 1..(Len(input) \div 3) |-> interpolate(input, (k - 1) * 3, 1)]

ResamplerImpls == {"audio-transcoder", "resampler"}

Upsample(impl, x) ==
  IF impl = "audio-transcoder" THEN resample8to24(x) ELSE resample8kTo24k(x)

Downsample(impl, x) ==
  IF impl = "audio-transcoder" THEN resample24to8(x) ELSE resample24kTo8k(x)

\* int16 samples the buffers are made of
Samples == {Int16Min, 0 - 1, Int16Max}

SeqsUpTo(n) == UNION {[1..k -> Samples] : k \in 0..n}

\* every 8 kHz buffer of up to MaxLen8 samples and every 24 kHz buffer of up
\* to MaxLen24 samples, for either resampler
InitResample ==
  audio \in {[stage |-> "8k", impl |-> impl, samples |-> x, input |-> <<>>,
              ops |-> <<>>] : impl \in ResamplerImpls, x \in SeqsUpTo(MaxLen8)}
        \cup {[stage |-> "24k", impl |-> impl, samples |-> x, input |-> <<>>,
                 ops |-> <<>>] : impl \in ResamplerImpls, x \in SeqsUpTo(MaxLen24)}

\* the 8 kHz buffer is upsampled
UpsampleStep ==
  /\ audio.stage = "8k"
  /\ Len(audio.ops) < MaxOps
  /\ audio' = [audio EXCEPT !.stage = "24k",
                            !.input = audio.samples,
                            !.samples = Upsample(audio.impl, audio.samples),
                            !.ops = Append(@, "up")]
  /\ UNCHANGED serviceVars

\* the 24 kHz buffer is downsampled
DownsampleStep ==
  /\ audio.stage = "24k"
  /\ Len(audio.ops) < MaxOps
  /\ audio' = [audio EXCEPT !.stage = "8k",
                            !.input = audio.samples,
                            !.samples = Downsample(audio.impl, audio.samples),
                            !.ops = Append(@, "down")]
  /\ UNCHANGED serviceVars

(***************************************************************************)
(* The audio relay: media frames to the LLM, audio deltas to telephony     *)
(***************************************************************************)
\* twilioToOpenAI: PCMU bytes -> PCM16 at 8 kHz -> PCM16 at 24 kHz (payloads
\* are the buffers their base64 texts stand for)
twilioToOpenAI(pcmu) == resample8to24(pcmuToPcm16(pcmu))

\* openaiToTwilio: PCM16 at 24 kHz -> PCM16 at 8 kHz -> PCMU bytes
openaiToTwilio(pcm16) == pcm16ToPcmu(resample24to8(pcm16))

\* media payloads the telephony peer sends, audio deltas the LLM sends
MediaPayloads == {<<255>>, <<0, 127>>}
AudioDeltas == {<<0, 0, 0>>, <<100, 50, 0 - 3, Int16Max, 1, 1>>}
StreamSids == {"MZ1", "MZ2"}

InitRelay ==
  audio = [stage |-> "relay", streamSid |-> "",
           received |-> <<>>,    \* media payloads received while active with the LLM socket open
           appended |-> <<>>,    \* audio of the input_audio_buffer.append messages sent
           deltas |-> <<>>,      \* deltas received while active with the telephony socket open
           played |-> <<>>]      \* media frames sent to telephony

\* onTwilioMessage case 'start': callSid and streamSid are taken from the event
\* and initializeCall begins
RelayStart ==
  /\ bridge.twilioWs # "closed"
  /\ Len(bridge.inits) < 1
  /\ bridge' = [Begin(bridge, "twilio.start") EXCEPT
                  !.inits = Append(@, "createSession")]
  /\ \E sid \in StreamSids : audio' = [audio EXCEPT !.streamSid = sid]
  /\ UNCHANGED <<appointments, toolPc, toolReq, apptResult, toolResult, freeAtInvoke,
                 inserted, confirmationNumber, overlap, dispatchLog, slotVars, cache>>

\* onTwilioMessage case 'media' with the payload of the frame
onTwilioMedia(b, payload) ==
  LET b0 == Begin(b, "media")
  IN IF b0.openai = NoClient \/ ~b0.alive THEN b0
     ELSE Send(b0, b0.openai, [type |-> "input_audio_buffer.append",
                               audio |-> twilioToOpenAI(payload)])

\* a media frame arrives on the telephony socket
RelayMedia ==
  /\ bridge.twilioWs # "closed"
  /\ Len(audio.received) < MaxRelay
  /\ \E payload \in MediaPayloads :
       LET b1 == onTwilioMedia(bridge, payload)
           eligible == /\ bridge.alive
                       /\ bridge.openai # NoClient
                       /\ bridge.clients[bridge.openai].sock = "open"
       IN /\ bridge' = b1
          /\ audio' = [audio EXCEPT
                         !.received = IF eligible THEN Append(@, payload) ELSE @,
                         !.appended = @ \o [i \in DOMAIN b1.sentLLM |->
                                              b1.sentLLM[i].msg.audio]]
  /\ UNCHANGED <<appointments, toolPc, toolReq, apptResult, toolResult, freeAtInvoke,
                 inserted, confirmationNumber, overlap, dispatchLog, slotVars, cache>>

\* response.audio.delta arrives on the socket of client c: handleEvent
\* transcodes event.delta and onAudioDelta -> sendAudioToTwilio wraps it in a
\* media frame with this.streamSid
RelayDelta ==
  /\ Len(audio.deltas) < MaxRelay
  /\ \E c \in DOMAIN bridge.clients, delta \in AudioDeltas :
       /\ bridge.clients[c].sock \in {"open", "closing"}
       /\ LET b1 == handleEvent([Begin(bridge, "response.audio.delta")
                                   EXCEPT !.client = c],
                                c, [type |-> "response.audio.delta", item_id |-> "I1"])
              eligible == bridge.alive /\ bridge.twilioWs = "open"
          IN /\ bridge' = b1
             /\ audio' = [audio EXCEPT
                            !.deltas = IF eligible THEN Append(@, delta) ELSE @,
                            !.played = @ \o [i \in DOMAIN b1.sentTwilio |->
                                               [event |-> b1.sentTwilio[i],
                                                streamSid |-> audio.streamSid,
                                                payload |-> openaiToTwilio(delta)]]]
  /\ UNCHANGED <<appointments, toolPc, toolReq, apptResult, toolResult, freeAtInvoke,
                 inserted, confirmationNumber, overlap, dispatchLog, slotVars, cache>>

(***************************************************************************)
(* Part VI.  The Session Cache of one call: session-manager's get-then-set *)
(* operations over one Redis connection                                    *)
(***************************************************************************)
\* what createSession stores
NewSession ==
  [status |-> "active", transcript |-> <<>>, toolCalls |-> <<>>,
   openaiSessionId |-> "none", chunksReceived |-> 0, chunksSent |-> 0]

\* the operations the bridge starts without awaiting them
CacheOpKinds ==
  {"appendTranscript.user", "appendTranscript.assistant", "appendToolCall",
   "updateAudioStats.received", "updateAudioStats.sent", "setOpenAISessionId",
   "endSession"}

\* what operation number id does to the session it read, before writing it back
applyOp(session, op, id) ==
  CASE op.kind = "appendTranscript.user" ->
         [session EXCEPT !.transcript =
            Append(@, [role |-> "user", timestamp |-> op.timestamp, op |-> id])]
    [] op.kind = "appendTranscript.assistant" ->
         [session EXCEPT !.transcript =
            Append(@, [role |-> "assistant", timestamp |-> op.timestamp, op |-> id])]
    [] op.kind = "appendToolCall" ->
         [session EXCEPT !.toolCalls =
            Append(@, [timestamp |-> op.timestamp, op |-> id])]
    [] op.kind = "updateAudioStats.received" ->
         [session EXCEPT !.chunksReceived = @ + 1]
    [] op.kind = "updateAudioStats.sent" ->
         [session EXCEPT !.chunksSent = @ + 1]
    [] op.kind = "setOpenAISessionId" ->
         [session EXCEPT !.openaiSessionId = "sess"]
    [] OTHER -> [session EXCEPT !.status = "ended"]

nextCommandNewest(cmds) == Len(cmds)

\* the command Redis executes next: the connection is first in, first out
nextCommand(cmds) == 1

RemoveAt(seq, k) == SubSeq(seq, 1, k - 1) \o SubSeq(seq, k + 1, Len(seq))

\* createSession has stored the session; nothing is in flight
InitCache ==
  cache = [session |-> NewSession,
           cmds |-> <<>>,        \* commands sent to Redis and not yet executed
           replies |-> <<>>,     \* replies on their way back
           ops |-> <<>>,         \* the operations started, in call order
           now |-> 1]            \* Date.now()

\* The bridge calls one of the operations: the entry takes its timestamp from
\* Date.now() and getSession sends GET before the function first suspends.
CacheInvoke(kinds) ==
  /\ Len(cache.ops) < MaxCacheOps
  /\ \E kind \in kinds, tick \in {0, 1} :
       cache' = [cache EXCEPT
                   !.now = @ + tick,
                   !.ops = Append(@, [kind |-> kind, timestamp |-> cache.now + tick,
                                      pc |-> "get"]),
                   !.cmds = Append(@, [op |-> Len(cache.ops) + 1, cmd |-> "get",
                                       value |-> NewSession])]
  /\ UNCHANGED <<appointments, toolPc, toolReq, apptResult, toolResult, freeAtInvoke,
                 inserted, confirmationNumber, overlap, dispatchLog, slotVars, audio,
                 bridge>>

\* Redis executes the next command of the connection and answers it; a
\* command may also fail (connection error) where outcomes has FALSE
RedisExecutes(outcomes) ==
  /\ cache.cmds # <<>>
  /\ \E ok \in outcomes :
       LET k == nextCommand(cache.cmds)
           c == cache.cmds[k]
       IN cache' = [cache EXCEPT
                      !.cmds = RemoveAt(@, k),
                      !.session = IF ok /\ c.cmd = "set" THEN c.value ELSE @,
                      !.replies = Append(@, [op |-> c.op, cmd |-> c.cmd, ok |-> ok,
                                             value |-> cache.session])]
  /\ UNCHANGED <<appointments, toolPc, toolReq, apptResult, toolResult, freeAtInvoke,
                 inserted, confirmationNumber, overlap, dispatchLog, slotVars, audio,
                 bridge>>

\* A reply reaches the process and the operation resumes: after GET it
\* changes the session it read and sends SETEX with the whole session; after
\* SETEX it is over; a rejection ends it (the callers' .catch swallows it).
CacheReply ==
  /\ cache.replies # <<>>
  /\ LET r == Head(cache.replies)
         op == cache.ops[r.op]
     IN cache' = [cache EXCEPT
                    !.replies = Tail(@),
                    !.ops[r.op].pc = IF ~r.ok THEN "failed"
                                     ELSE IF r.cmd = "get" THEN "set" ELSE "done",
                    !.cmds = IF r.ok /\ r.cmd = "get"
                               THEN Append(@, [op |-> r.op, cmd |-> "set",
                                               value |-> applyOp(r.value, op, r.op)])
                               ELSE @]
  /\ UNCHANGED <<appointments, toolPc, toolReq, apptResult, toolResult, freeAtInvoke,
                 inserted, confirmationNumber, overlap, dispatchLog, slotVars, audio,
                 bridge>>

(***************************************************************************)
(* Outbound framing: the media frames made of the LLM's audio deltas       *)
(***************************************************************************)
\* sizes, in samples, of the deltas the LLM may cut its audio into: 20 ms,
\* 40 ms, 200 ms, 1 s
DeltaSamples == {480, 960, 4800, Rate24k}

TwoSecondsOfSamples == 2 * Rate24k

\* bytes of the payload openaiToTwilio makes of a delta of n samples:
\* resample24to8 keeps floor(n / 3) samples, pcm16ToPcmu one byte for each
payloadBytes(n) == n \div 3

InitFraming ==
  audio = [stage |-> "framing",
           samples |-> 0,        \* samples of LLM audio received
           frames |-> 0,         \* media frames sent to telephony
           bytes |-> 0,          \* bytes of their payloads
           offSize |-> 0]        \* frames whose payload is not FrameBytes long

\* response.audio.delta of n samples on an active call: handleEvent
\* transcodes it and sendAudioToTwilio sends the result as one media frame
AudioDeltaFramed ==
  /\ \E n \in DeltaSamples :
       /\ audio.samples + n <= TwoSecondsOfSamples
       /\ audio' = [audio EXCEPT
                      !.samples = @ + n,
                      !.frames = @ + 1,
                      !.bytes = @ + payloadBytes(n),
                      !.offSize = IF payloadBytes(n) = FrameBytes THEN @ ELSE @ + 1]
  /\ UNCHANGED serviceVars

(***************************************************************************)
(* Specifications                                                          *)
(***************************************************************************)
Init ==
  /\ InitBooking /\ InitSlots /\ audio = NoAudio /\ cache = NoCache
  /\ bridge = InitBridge

Next ==
  \/ TwilioStart
  \/ CreateSessionSettled
  \/ TwilioStop
  \/ TwilioClose
  \/ LLMOpen
  \/ LLMHandshakeFails
  \/ ConnectTimeout
  \/ LLMPeerClose
  \/ LLMCloseCompletes
  \/ BackoffElapsed
  \/ DurationTimerFires
  \/ HardCutFires
  \/ EndSessionGet
  \/ EndSessionSet

\* The life cycle of one bridge
Spec == Init /\ [][Next]_vars

\* The steps that need no peer: settled cache operations, timers, and closing
\* handshakes (ws destroys a socket whose peer does not answer the close).
Internal ==
  \/ CreateSessionSettled
  \/ ConnectTimeout
  \/ LLMCloseCompletes
  \/ BackoffElapsed
  \/ DurationTimerFires
  \/ HardCutFires
  \/ EndSessionGet
  \/ EndSessionSet
  \/ (bridge.twilioWs = "closing" /\ TwilioClose)

\* The life cycle under the event loop's scheduling: what is pending runs
FairSpec == Init /\ [][Next]_vars /\ WF_vars(Internal)

\* a telephony peer that keeps to the protocol (one start)
TwilioStartOnce == StartEvent(1)

NextConv ==
  \/ TwilioStartOnce
  \/ CreateSessionSettled
  \/ LLMOpen
  \/ LLMMessage
  \/ TwilioStop
  \/ TwilioClose
  \/ LLMCloseCompletes
  \/ EndSessionGet
  \/ EndSessionSet

\* One call's conversation with the LLM
SpecConv == Init /\ [][NextConv]_vars

NextRestart == Next \/ TwilioStartRepeated

\* The life cycle with a telephony peer that repeats start
SpecRestart == Init /\ [][NextRestart]_vars

\* One call (one start), with the session events of its LLM sockets
NextReconnect ==
  \/ TwilioStartOnce
  \/ CreateSessionSettled
  \/ TwilioStop
  \/ TwilioClose
  \/ LLMOpen
  \/ LLMSessionCreated
  \/ LLMHandshakeFails
  \/ ConnectTimeout
  \/ LLMPeerClose
  \/ LLMCloseCompletes
  \/ BackoffElapsed
  \/ DurationTimerFires
  \/ HardCutFires
  \/ EndSessionGet
  \/ EndSessionSet

SpecReconnect == Init /\ [][NextReconnect]_vars

NextSockets == NextReconnect \/ TwilioMedia \/ LLMSendingMessage

\* One call and everything that sends on its LLM sockets: caller audio, tool
\* results, the wrap-up, on the initial socket and on reconnected ones
SpecSockets == Init /\ [][NextSockets]_vars

\* One call, its two sockets delivering raw frames
NextFrames ==
  \/ TwilioStartOnce
  \/ CreateSessionSettled
  \/ LLMOpen
  \/ TwilioFrame
  \/ LLMFrame
  \/ TwilioClose
  \/ LLMCloseCompletes
  \/ EndSessionGet
  \/ EndSessionSet

SpecFrames == Init /\ [][NextFrames]_vars

NextBooking ==
  /\ \E c \in Calls :
       \/ FunctionCallReceived(c)
       \/ CreateAppointment(c)
       \/ UpdateStatusRejected(c)
       \/ IncrementCounterSettled(c)
       \/ ExecuteToolCallReturns(c)
  /\ UNCHANGED <<bridge, slotVars, audio, cache>>

\* rows with confirmation numbers 20001.. for the labels of `labels` on `date`
StoredRows(date, labels) ==
  [i \in 1..Len(labels) |-> Row(date, labels[i], StoredConfLow + i, "CA0")]

\* what the store may hold when the server starts
StoreContents ==
  {<<>>,
   StoredRows("2026-02-10", <<"1:00 PM">>),
   StoredRows("2026-02-14", <<"9:00 AM">>),
   StoredRows("2026-02-10", generateAllSlots) \o StoredRows("2026-02-13", <<"4:30 PM">>)}

\* a server in any of the time zones, over any of the stores
InitSlotService ==
  /\ InitCalls
  /\ appointments \in StoreContents
  /\ tz \in TZOffsets
  /\ slotsQuery = NoQuery
  /\ audio = NoAudio
  /\ cache = NoCache
  /\ bridge = InitBridge

NextSlots ==
  \/ ListAvailableSlots
  \/ /\ \/ FunctionCallReceived("CA1")
        \/ CreateAppointment("CA1")
        \/ UpdateStatusRejected("CA1")
        \/ IncrementCounterSettled("CA1")
        \/ ExecuteToolCallReturns("CA1")
     /\ UNCHANGED <<bridge, slotVars, audio, cache>>

NextRequests ==
  /\ \/ AnyFunctionCallReceived("CA1")
     \/ CreateAppointment("CA1")
     \/ UpdateStatusRejected("CA1")
     \/ IncrementCounterSettled("CA1")
     \/ ExecuteToolCallReturns("CA1")
  /\ UNCHANGED <<bridge, slotVars, audio, cache>>

\* create_appointment of one call with any date and time as arguments
SpecRequests == Init /\ [][NextRequests]_vars

\* list_available_slots and create_appointment of one call
SpecSlots == InitSlotService /\ [][NextSlots]_vars

\* Tool dispatch of concurrent calls against the Booking Store
SpecBooking == Init /\ [][NextBooking]_vars

NextStore ==
  \/ NextBooking
  \/ \E c \in Calls : InsertAppointmentDirect(c) /\ UNCHANGED <<bridge, slotVars, audio, cache>>

\* The same, with the store's insert also reachable on its own
SpecStore == Init /\ [][NextStore]_vars

InitCacheService ==
  InitBooking /\ InitSlots /\ audio = NoAudio /\ bridge = InitBridge /\ InitCache

NextCache == CacheInvoke(CacheOpKinds) \/ RedisExecutes(BOOLEAN) \/ CacheReply

\* The unawaited Session Cache operations of one call
SpecCache == InitCacheService /\ [][NextCache]_vars

\* operations the bridge starts during the call, before or after teardown
CallOpKinds == {"appendTranscript.user", "appendToolCall", "updateAudioStats.received"}

\* cleanup calls endSession, once for the call (cleanup returns when the
\* handler is no longer alive)
CacheEndSession ==
  /\ \A k \in DOMAIN cache.ops : cache.ops[k].kind # "endSession"
  /\ CacheInvoke({"endSession"})

NextTeardownCache ==
  CacheInvoke(CallOpKinds) \/ CacheEndSession \/ RedisExecutes({TRUE}) \/ CacheReply

\* The Session Cache operations of one call around its teardown, every
\* command succeeding
SpecTeardownCache == InitCacheService /\ [][NextTeardownCache]_vars

\* the operations that write the transcript, with two that write the same
\* session record next to them
TranscriptOpKinds ==
  {"appendTranscript.user", "appendTranscript.assistant", "appendToolCall",
   "endSession"}

NextTranscript ==
  CacheInvoke(TranscriptOpKinds) \/ RedisExecutes({TRUE}) \/ CacheReply

\* The transcript appends of one call, every command succeeding
SpecTranscript == InitCacheService /\ [][NextTranscript]_vars

InitRelayService ==
  InitBooking /\ InitSlots /\ cache = NoCache /\ bridge = InitBridge /\ InitRelay

NextRelay ==
  \/ RelayStart
  \/ CreateSessionSettled
  \/ LLMOpen
  \/ LLMPeerClose
  \/ BackoffElapsed
  \/ RelayMedia
  \/ RelayDelta
  \/ TwilioStop
  \/ TwilioClose
  \/ LLMCloseCompletes

\* One call's audio in both directions
SpecRelay == InitRelayService /\ [][NextRelay]_vars

InitResampleService ==
  InitBooking /\ InitSlots /\ cache = NoCache /\ bridge = InitBridge /\ InitResample

NextResample == UpsampleStep \/ DownsampleStep

\* the two resamplers applied to buffers of either rate
SpecResample == InitResampleService /\ [][NextResample]_vars

InitFramingService ==
  InitBooking /\ InitSlots /\ cache = NoCache /\ bridge = InitBridge /\ InitFraming

NextFraming == AudioDeltaFramed

\* The LLM's audio of one response, cut into deltas of any of the sizes
SpecFraming == InitFramingService /\ [][NextFraming]_vars

InitCodecService ==
  InitBooking /\ InitSlots /\ cache = NoCache /\ bridge = InitBridge /\ InitCodec

NextCodec == DecodeStep \/ EncodeStep

\* mu-law decoding and encoding of one byte by either codec
SpecCodec == InitCodecService /\ [][NextCodec]_vars

NextDispatch ==
  \/ NextBooking
  \/ \E c \in Calls :
       /\ UnknownFunctionCallReceived(c) \/ UnknownToolDispatched(c)
       /\ UNCHANGED <<bridge, slotVars, audio, cache>>

\* Tool dispatch with any function name the LLM may send
SpecDispatch == Init /\ [][NextDispatch]_vars

(***************************************************************************)
(* Properties: Booking Store                                               *)
(***************************************************************************)
\* C1: in every reachable state, every (date, time) has at most one
\* appointment row with status confirmed, whatever the interleaving of the
\* concurrent calls' create_appointment invocations.
AtMostOneConfirmedPerSlot ==
  \A d \in Dates, t \in Times : Cardinality(ConfirmedRows(d, t)) <= 1

\* two overlapping invocations for one slot have both run their check and
\* insert, and the slot holds one row
RaceOnOneSlotSettled ==
  \E c1, c2 \in Calls :
    /\ c1 # c2 /\ c2 \in overlap[c1]
    /\ toolReq[c1] = toolReq[c2]
    /\ apptResult[c1].kind = "result" /\ apptResult[c2].kind = "result"
    /\ inserted[c1] /\ ~inserted[c2]
    /\ Cardinality(ConfirmedRows(toolReq[c1].date, toolReq[c1].time)) = 1

Succeeded(c) ==
  /\ apptResult[c].kind = "result"
  /\ apptResult[c].success
  /\ apptResult[c].confirmation_number \in ConfNumbers

\* C2: two create_appointment invocations that overlap, for the same
\* (date, time), on a slot with no confirmed row: exactly one returns success
\* with a confirmation number and the other returns
\* { success: false, error: "slot_taken" }.
ConcurrentPairOneSuccessOneSlotTaken ==
  \A c1, c2 \in Calls :
    ( /\ c1 # c2 /\ c2 \in overlap[c1]
      /\ toolReq[c1] = toolReq[c2]
      /\ freeAtInvoke[c1] /\ freeAtInvoke[c2]
      /\ apptResult[c1].kind = "result" /\ apptResult[c2].kind = "result" )
    => \/ Succeeded(c1) /\ apptResult[c2] = Failure("slot_taken")
       \/ Succeeded(c2) /\ apptResult[c1] = Failure("slot_taken")

\* both invocations of such a pair returned success: false
ConcurrentPairBothFailed ==
  \E c1, c2 \in Calls :
    /\ c1 # c2 /\ c2 \in overlap[c1]
    /\ toolReq[c1] = toolReq[c2]
    /\ freeAtInvoke[c1] /\ freeAtInvoke[c2]
    /\ apptResult[c1].kind = "result" /\ ~apptResult[c1].success
    /\ apptResult[c2].kind = "result" /\ ~apptResult[c2].success

\* C3: the store rejects an insert for a (date, time) that already has a
\* confirmed row: once a slot is booked, no step adds a row for it.
StoreRejectsSecondConfirmedRow ==
  [][\A d \in Dates, t \in Times :
       isSlotBooked(d, t) => ConfirmedRows(d, t)' = ConfirmedRows(d, t)]_vars

(***************************************************************************)
(* Properties: bridge life cycle                                           *)
(***************************************************************************)
OpenSockets(b) == {c \in DOMAIN b.clients : b.clients[c].sock = "open"}
LiveSockets(b) ==
  {c \in DOMAIN b.clients : b.clients[c].sock \in {"connecting", "open"}}
PendingCallTimers(b) == b.durationTimers + b.hardCuts

\* C4: after teardown there is eventually, and from then on always, no open
\* or connecting LLM socket and no pending duration or hard-cut timer.
NoLeakAfterTeardown ==
  [](~bridge.alive =>
       <>[](LiveSockets(bridge) = {} /\ PendingCallTimers(bridge) = 0))

TeardownView(b) ==
  [alive |-> b.alive, twilioOpen |-> b.twilioWs = "open", openai |-> b.openai,
   clients |-> b.clients, session |-> b.session, endPc |-> b.endPc,
   endRecords |-> b.endRecords, endReason |-> b.endReason,
   callTimeoutArmed |-> b.callTimeoutArmed,
   durationTimers |-> b.durationTimers, hardCuts |-> b.hardCuts,
   reconnectAttempts |-> b.reconnectAttempts, backoffs |-> b.backoffs]

\* C6: a teardown invoked after the first one (by a telephony stop or by the
\* telephony close event) sends nothing, closes nothing, writes nothing to
\* the Session Cache and keeps the first termination reason.
SecondTeardownIsNoOp ==
  [][(bridge'.cleanupReason \in {"twilio_stop", "twilio_closed"} /\ ~bridge.alive)
       => /\ TeardownView(bridge') = TeardownView(bridge)
          /\ bridge'.sentLLM = <<>>
          /\ bridge'.sentTwilio = <<>>]_vars

\* the close event invoked teardown after a stop had torn the call down
SecondTeardownHappened ==
  /\ bridge.cleanupReason = "twilio_closed"
  /\ bridge.endReason = "twilio_stop"

\* the call's status is active: start was handled and teardown has not run
Active(b) == b.alive /\ \E i \in DOMAIN b.inits : b.inits[i] = "done"

\* C7: while the call is active exactly one LLM socket is open.
ExactlyOneLLMSocketWhileActive ==
  Active(bridge) => Cardinality(OpenSockets(bridge)) = 1

\* two LLM sockets are open for the active call
TwoLLMSocketsOpen ==
  Active(bridge) /\ Cardinality(OpenSockets(bridge)) = 2

(***************************************************************************)
(* Properties: conversation                                                *)
(***************************************************************************)
Sent(b, msg) == \E k \in DOMAIN b.sentLLM : b.sentLLM[k].msg = msg

\* C8: speech_started received while the client is ai-speaking on item I, with
\* both sockets open: clear goes to telephony, response.cancel and
\* conversation.item.truncate { item_id: I, content_index: 0, audio_end_ms:
\* the ms of AI audio delivered } go to the LLM, and the state becomes
\* user-speaking.
BargeInClearsCancelsTruncates ==
  [][\A c \in DOMAIN bridge.clients :
       ( /\ bridge'.handled = "input_audio_buffer.speech_started"
         /\ bridge'.client = c
         /\ bridge.openai = c
         /\ bridge.clients[c].sock = "open"
         /\ bridge.twilioWs = "open"
         /\ bridge.clients[c].state = "ai_speaking"
         /\ bridge.clients[c].currentResponseItemId # NullItem )
       => /\ \E k \in DOMAIN bridge'.sentTwilio : bridge'.sentTwilio[k] = "clear"
          /\ Sent(bridge', [type |-> "response.cancel"])
          /\ Sent(bridge', [type |-> "conversation.item.truncate",
                            item_id |-> bridge.clients[c].currentResponseItemId,
                            content_index |-> 0,
                            audio_end_ms |-> bridge.audioMs])
          /\ bridge'.clients[c].state = "user_speaking"]_vars

\* C9: current-response-item-id is non-null only while the conversation state
\* is ai-speaking.
ItemIdOnlyWhileAISpeaking ==
  \A c \in DOMAIN bridge.clients :
    bridge.clients[c].currentResponseItemId # NullItem
      => bridge.clients[c].state = "ai_speaking"

\* C10: after every barge-in (speech_started received while ai-speaking) a
\* clear frame goes to telephony before the next AI media frame does.
ClearBeforeNextMediaAfterBargeIn ==
  LET log == bridge.twilioLog IN
  \A i \in DOMAIN log :
    log[i] = "barge" =>
      \A j \in DOMAIN log :
        (j > i /\ log[j] = "media") => \E k \in (i + 1)..(j - 1) : log[k] = "clear"

\* AI audio, a barge-in, the clear frame, and AI audio again
MediaResumedAfterBargeIn ==
  \E i \in DOMAIN bridge.twilioLog :
    /\ i + 2 \in DOMAIN bridge.twilioLog
    /\ bridge.twilioLog[i] = "barge"
    /\ bridge.twilioLog[i + 1] = "clear"
    /\ bridge.twilioLog[i + 2] = "media"

(***************************************************************************)
(* Properties: reconnection and the duration ceiling                       *)
(***************************************************************************)
ReconnectClients(b) == {c \in DOMAIN b.clients : b.clients[c].kind = "reconnect"}

IsPrefix(s, t) == Len(s) <= Len(t) /\ \A i \in DOMAIN s : s[i] = t[i]

\* C11: with no reset of the counter, the reconnect attempts are at most
\* three, the n-th after a backoff of n x 1 s, and the call ends with the
\* reconnect-exhausted reason only after three attempts were made.
ThreeAttemptsLinearBackoffThenExhausted ==
  /\ IsPrefix(bridge.delays, <<BackoffUnitMs, 2 * BackoffUnitMs, 3 * BackoffUnitMs>>)
  /\ Cardinality(ReconnectClients(bridge)) <= MAX_RECONNECT
  /\ bridge.endReason = "openai_reconnect_exhausted"
       => Cardinality(ReconnectClients(bridge)) = MAX_RECONNECT

\* the call ended by exhaustion after fewer than three reconnect attempts
ExhaustedEarly ==
  /\ bridge.endReason = "openai_reconnect_exhausted"
  /\ Cardinality(ReconnectClients(bridge)) < MAX_RECONNECT

\* C12: session.created received on the reconnected LLM socket resets the
\* reconnect counter to zero.
SessionCreatedResetsReconnectCounter ==
  [][\A c \in DOMAIN bridge.clients :
       ( /\ bridge'.handled = "session.created"
         /\ bridge'.client = c
         /\ bridge.openai = c
         /\ bridge.alive
         /\ bridge.clients[c].kind = "reconnect"
         /\ bridge.clients[c].sock = "open" )
       => bridge'.reconnectAttempts = 0]_vars

\* C13: the duration timer firing on an active call sends the user-role
\* wrap-up item and then response.create to the LLM and arms the hard cut;
\* the hard cut tears the call down and leaves no socket open.
WrapUpSentThenHardCut ==
  [][/\ (bridge'.handled = "timer.duration" /\ Active(bridge))
        => /\ Len(bridge'.sentLLM) = 2
           /\ bridge'.sentLLM[1].msg = [type |-> "conversation.item.create",
                                        role |-> "user"]
           /\ bridge'.sentLLM[2].msg = [type |-> "response.create"]
           /\ bridge'.hardCuts = bridge.hardCuts + 1
     /\ (bridge'.handled = "timer.hard_cut" /\ Active(bridge))
        => /\ ~bridge'.alive
           /\ bridge'.endReason = "timeout_hard"
           /\ bridge'.twilioWs # "open"
           /\ OpenSockets(bridge') = {}]_vars

\* C14: every call that received start is eventually torn down.
StartedCallEventuallyTornDown ==
  [](Len(bridge.inits) > 0 => <>(~bridge.alive))

\* the call is alive on a reconnect socket, initializeCall still awaits
\* connect(), and no duration or hard-cut timer is armed
AliveWithoutDurationTimer ==
  /\ bridge.alive
  /\ bridge.openai # NoClient
  /\ bridge.clients[bridge.openai].kind = "reconnect"
  /\ bridge.clients[bridge.openai].sock = "open"
  /\ \E i \in DOMAIN bridge.inits : bridge.inits[i] = "connect"
  /\ bridge.backoffs = 0
  /\ PendingCallTimers(bridge) = 0

\* C15: a telephony stop or close on a call that received start and is not
\* torn down runs teardown in that step with the stop (close) reason and
\* leaves no LLM socket open or connecting; once the call has ended that way
\* no reconnect backoff is started and no reconnect client is created.
TelephonyEndTearsDownAtOnce ==
  [][/\ ( /\ bridge'.handled \in {"twilio.stop", "twilio.close"}
           /\ bridge.alive /\ Len(bridge.inits) > 0 )
        => /\ ~bridge'.alive
           /\ bridge'.endReason = IF bridge'.handled = "twilio.stop"
                                    THEN "twilio_stop" ELSE "twilio_closed"
           /\ bridge'.cleanupReason = bridge'.endReason
           /\ bridge'.openai = NoClient
           /\ LiveSockets(bridge') = {}
     /\ bridge.endReason \in {"twilio_stop", "twilio_closed"}
        => /\ ReconnectClients(bridge') = ReconnectClients(bridge)
           /\ bridge'.delays = bridge.delays]_vars

\* a telephony stop tore down a call whose LLM socket was open
StopClosedOpenLLMSocket ==
  /\ bridge.handled = "twilio.stop"
  /\ bridge.endReason = "twilio_stop"
  /\ \E c \in DOMAIN bridge.clients :
       bridge.clients[c].sock = "closing" /\ bridge.clients[c].closed

(***************************************************************************)
(* Properties: malformed frames                                            *)
(***************************************************************************)
\* the received texts that are not JSON texts
MalformedFrames ==
  {"{\"event\":\"stop\"", "stop", "", "{\"type\":\"response.audio.done\"", "[DONE]]"}

\* the Bridge's state without the record of what the last step did
BridgeState(b) ==
  [b EXCEPT !.handled = "", !.client = NoClient, !.cleanupReason = "none",
            !.sentLLM = <<>>, !.sentTwilio = <<>>, !.executed = FALSE]

\* C16: a frame that is not valid JSON, from either socket, changes no Bridge
\* state, sends nothing to either peer and runs no teardown.
MalformedFrameIsDropped ==
  [][bridge'.handled \in MalformedFrames
       => /\ BridgeState(bridge') = BridgeState(bridge)
          /\ bridge'.sentLLM = <<>>
          /\ bridge'.sentTwilio = <<>>
          /\ bridge'.cleanupReason = "none"]_vars

\* a malformed LLM frame was received while the AI was speaking on an alive call
MalformedFrameDuringAISpeech ==
  /\ bridge.handled \in MalformedFrames
  /\ bridge.alive
  /\ bridge.client # NoClient
  /\ bridge.clients[bridge.client].sock = "open"
  /\ bridge.clients[bridge.client].state = "ai_speaking"

(***************************************************************************)
(* Properties: tool dispatch                                               *)
(***************************************************************************)
\* the INSERT of the invocation of call c threw and createAppointment returned
InsertThrew(c) ==
  /\ apptResult[c].kind = "result"
  /\ confirmationNumber[c] # 0
  /\ ~inserted[c]

\* C17: a failure inside a tool dispatch (here: the Booking Store raising on
\* the insert) reaches the LLM as the error discriminator { error: true,
\* message }.
StoreExceptionReturnsErrorDiscriminator ==
  \A c \in Calls :
    (toolPc[c] = "done" /\ InsertThrew(c)) => toolResult[c] = ToolError

\* createAppointment ran in this step, from its pre-check to its return or
\* to its await of incrementCounter
RanCreateAppointment(c) ==
  toolPc[c] = "updateStatus" /\ toolPc'[c] \in {"logging", "incrementCounter"}

FreeSlotAlwaysBooked ==
  [][\A c \in Calls :
       /\ (RanCreateAppointment(c)
             /\ ConfirmedRows(toolReq[c].date, toolReq[c].time) = {})
          => /\ Len(appointments') = Len(appointments) + 1
             /\ SubSeq(appointments', 1, Len(appointments)) = appointments
             /\ LET row == appointments'[Len(appointments')] IN
                  /\ row.date = toolReq[c].date /\ row.time = toolReq[c].time
                  /\ row.status = "confirmed"
                  /\ row.confirmation_number \in 10000..99999
                  /\ \A i \in DOMAIN appointments :
                       appointments[i].confirmation_number # row.confirmation_number
       /\ (toolPc[c] = "incrementCounter" /\ toolPc'[c] = "logging")
          => apptResult'[c] = Success(confirmationNumber[c])]_vars

\* the generated confirmation number was already stored: nothing inserted
ConfirmationNumberCollided ==
  \E c \in Calls :
    /\ InsertThrew(c)
    /\ apptResult[c] = Failure(DbErrorMsg)
    /\ \E i \in DOMAIN appointments :
         appointments[i].confirmation_number = confirmationNumber[c]

(***************************************************************************)
(* Properties: list_available_slots                                        *)
(***************************************************************************)
\* the day's 14 labels in time order
DayLabels ==
  <<"9:00 AM", "9:30 AM", "10:00 AM", "10:30 AM", "11:00 AM", "11:30 AM",
    "1:00 PM", "1:30 PM", "2:00 PM", "2:30 PM", "3:00 PM", "3:30 PM",
    "4:00 PM", "4:30 PM">>

\* the day of the week of a calendar date: 0 Sunday .. 6 Saturday
Weekday(date) == (EpochDay[date] + 4) % 7

ExpectedSlots(date) ==
  IF Weekday(date) \in {0, 6} THEN <<>>
  ELSE LET free(label) ==
             ~\E i \in DOMAIN appointments :
                 /\ appointments[i].date = date
                 /\ appointments[i].time = label
                 /\ appointments[i].status = "confirmed"
       IN SelectSeq(DayLabels, free)

\* C20: list_available_slots(date) returns the empty list on a Saturday or
\* Sunday and otherwise the day's 14 labels, in time order, without those
\* that have a confirmed row on that date.
ListReturnsFreeLabelsOfWeekdays ==
  [][slotsQuery' # slotsQuery
       => slotsQuery'.available_slots = ExpectedSlots(slotsQuery'.date)]_vars

\* slots were offered for a Saturday or a Sunday
WeekendOffered ==
  /\ slotsQuery # NoQuery
  /\ Weekday(slotsQuery.date) \in {0, 6}
  /\ slotsQuery.available_slots # <<>>

(***************************************************************************)
(* Properties: Session Cache failures                                      *)
(***************************************************************************)
\* C21: a Session Cache operation that fails (here: the session creation at
\* start) does not end the call and the LLM socket is still opened.
CacheFailureKeepsCallGoing ==
  [][(bridge'.handled = "createSession.settled" /\ bridge.alive)
       => (bridge'.alive /\ LiveSockets(bridge') # {})]_vars

\* createSession rejected: the call is alive and has no LLM client at all
AliveWithoutLLMClient ==
  /\ bridge.alive
  /\ bridge.clients = <<>>
  /\ \E i \in DOMAIN bridge.inits : bridge.inits[i] = "failed"

(***************************************************************************)
(* Properties: tool dispatch and the transcript                            *)
(***************************************************************************)
\* the dispatch of call c has returned a result to the handler
DispatchCompleted(c) == toolPc[c] = "done" /\ toolResult[c] # NoResult

\* C22: every completed tool dispatch, failed ones included, has appended a
\* tool-call entry and then a tool-result entry to the call's transcript.
CompletedDispatchLoggedCallAndResult ==
  \A c \in Calls :
    DispatchCompleted(c) => dispatchLog[c] = <<"function_call", "function_result">>

\* a dispatch of an unknown tool has completed and left no transcript entry
UnknownToolLeftNoEntries ==
  \E c \in Calls :
    DispatchCompleted(c) /\ toolReq[c] = NoReq /\ dispatchLog[c] = <<>>

\* what the function-call handler of call c has sent to the LLM: nothing until
\* executeToolCall has returned, then the output item and response.create
HandlerSent(c) ==
  IF toolResult[c] = NoResult
    THEN <<>>
    ELSE <<[type |-> "conversation.item.create", item |-> "function_call_output",
            call_id |-> c, output |-> toolResult[c]],
           [type |-> "response.create"]>>

\* C23: a function call whose handling has ended has sent the LLM exactly one
\* function_call_output with its call_id and then exactly one response.create.
HandledFunctionCallSentOutputThenCreate ==
  \A c \in Calls :
    toolPc[c] = "done" =>
      /\ Len(HandlerSent(c)) = 2
      /\ HandlerSent(c)[1].item = "function_call_output"
      /\ HandlerSent(c)[1].call_id = c
      /\ HandlerSent(c)[2].type = "response.create"

\* a create_appointment call whose handler ended without sending anything
FunctionCallLeftUnanswered ==
  \E c \in Calls :
    toolPc[c] = "done" /\ toolReq[c] # NoReq /\ HandlerSent(c) = <<>>

(***************************************************************************)
(* Properties: greeting and audio relay                                    *)
(***************************************************************************)
\* C24: when session.updated is received on the open LLM socket of an active
\* call, the Bridge sends the greeting response.create on that socket.
GreetingSentOnSessionUpdated ==
  [][(/\ bridge'.handled = "session.updated"
      /\ bridge.alive
      /\ bridge'.client \in DOMAIN bridge.clients
      /\ bridge.clients[bridge'.client].sock = "open")
       => \E i \in DOMAIN bridge'.sentLLM :
            /\ bridge'.sentLLM[i].to = bridge'.client
            /\ bridge'.sentLLM[i].msg.type = "response.create"]_vars

\* session.updated was handled on the open socket of an active call and the
\* handler sent nothing
SessionUpdatedWithoutGreeting ==
  /\ bridge.handled = "session.updated"
  /\ bridge.alive
  /\ bridge.client \in DOMAIN bridge.clients
  /\ bridge.clients[bridge.client].sock = "open"
  /\ bridge.sentLLM = <<>>

\* C25: the audio appended to the LLM is, frame for frame and in order, the
\* transcoding of the media payloads received while the call was active with
\* its LLM socket open; the media frames sent to telephony are, frame for
\* frame and in order, the transcoding of the deltas received while the call
\* was active with the telephony socket open, each with the call's stream-id.
AudioRelayedOneToOneInOrder ==
  /\ audio.appended = [i \in DOMAIN audio.received |->
                         twilioToOpenAI(audio.received[i])]
  /\ audio.played = [i \in DOMAIN audio.deltas |->
                       [event |-> "media", streamSid |-> audio.streamSid,
                        payload |-> openaiToTwilio(audio.deltas[i])]]

\* two different frames have been relayed in each direction
TwoFramesRelayedEachWay ==
  /\ Len(audio.appended) = 2 /\ audio.received[1] # audio.received[2]
  /\ Len(audio.played) = 2 /\ audio.deltas[1] # audio.deltas[2]

\* an initializeCall started by a start event has not finished
StartInFlight(b) ==
  \E i \in DOMAIN b.inits : b.inits[i] \in {"createSession", "connect"}

\* C26: the handling of stop or close begins only when the handling of every
\* earlier start, with its session creation, LLM connect and timer, is over.
StartCompletesBeforeLaterEvents ==
  [][bridge'.handled \in {"twilio.stop", "twilio.close"}
       => ~StartInFlight(bridge)]_vars

\* stop was handled while the start before it was still creating the session
StopHandledDuringStart ==
  /\ bridge.handled = "twilio.stop"
  /\ \E i \in DOMAIN bridge.inits : bridge.inits[i] = "createSession"

(***************************************************************************)
(* Properties: Session Cache                                               *)
(***************************************************************************)
\* the operations whose write was applied
DoneOps(kinds) ==
  {i \in DOMAIN cache.ops : cache.ops[i].pc = "done" /\ cache.ops[i].kind \in kinds}

\* the operations that put the entries of a list there
OpsOf(list) == {list[i].op : i \in DOMAIN list}

TranscriptKinds == {"appendTranscript.user", "appendTranscript.assistant"}

\* C27: the stored transcript is ordered by non-decreasing instant.
TranscriptOrderedByInstant ==
  \A i, j \in DOMAIN cache.session.transcript :
    i < j => cache.session.transcript[i].timestamp
               <= cache.session.transcript[j].timestamp

\* appends overlapped (one completed append left no entry) and the stored
\* transcript holds a user and an assistant entry of different instants
TranscriptAfterOverlappingAppends ==
  /\ Len(cache.session.transcript) = 2
  /\ cache.session.transcript[1].timestamp # cache.session.transcript[2].timestamp
  /\ cache.session.transcript[1].role # cache.session.transcript[2].role
  /\ DoneOps(TranscriptKinds) \ OpsOf(cache.session.transcript) # {}

\* C28: every transcript entry and tool-call log whose append completed is in
\* the session record, and once no operation is pending the frame counters
\* equal the numbers of frames whose statistics update completed.
CompletedCacheWritesAreKept ==
  /\ DoneOps(TranscriptKinds) \subseteq OpsOf(cache.session.transcript)
  /\ DoneOps({"appendToolCall"}) \subseteq OpsOf(cache.session.toolCalls)
  /\ (\A i \in DOMAIN cache.ops : cache.ops[i].pc \in {"done", "failed"})
       => /\ cache.session.chunksReceived
               = Cardinality(DoneOps({"updateAudioStats.received"}))
          /\ cache.session.chunksSent
               = Cardinality(DoneOps({"updateAudioStats.sent"}))

\* every operation has completed, two of them counted a received frame, and
\* the stored counter is 1
ReceivedCounterBehindFrames ==
  /\ \A i \in DOMAIN cache.ops : cache.ops[i].pc = "done"
  /\ Cardinality(DoneOps({"updateAudioStats.received"})) = 2
  /\ cache.session.chunksReceived = 1

(***************************************************************************)
(* Properties: audio conversion                                            *)
(***************************************************************************)
\* C29: a mu-law byte that was decoded and encoded again, by either codec, is
\* the byte that was put in: encode(decode([b])) = [b].
MuLawRoundTripIsIdentity ==
  (audio.stage = "pcmu" /\ audio.trips > 0) => audio.samples = audio.origin

\* the byte 0x7F (negative zero) has made one round trip through the codec of
\* utils/logger.ts and come back as another byte
NegativeZeroChanged ==
  /\ audio.stage = "pcmu" /\ audio.trips = 1
  /\ audio.impl = "codec"
  /\ audio.origin = <<127>>
  /\ audio.samples # audio.origin

\* C30: upsampling x of length N gives 3N samples with sample 3i equal to
\* x[i] and the last three equal to x[N-1]; downsampling 3M+r samples gives M
\* samples, sample i being input sample 3i; downsampling what was just
\* upsampled gives x back; an empty buffer gives an empty buffer.
ResamplersKeepEveryThirdSample ==
  [][LET x == audio.samples
         y == audio'.samples
         N == Len(audio.samples)
     IN /\ (audio.stage = "8k" /\ audio'.stage = "24k") =>
             /\ Len(y) = 3 * N
             /\ \A i \in 0..(N - 1) : y[3 * i + 1] = x[i + 1]
             /\ \A k \in (3 * N - 2)..(3 * N) : k >= 1 => y[k] = x[N]
        /\ (audio.stage = "24k" /\ audio'.stage = "8k") =>
             /\ Len(y) = N \div 3
             /\ \A i \in 0..(Len(y) - 1) : y[i + 1] = x[3 * i + 1]
             /\ (audio.ops # <<>> /\ audio.ops[Len(audio.ops)] = "up")
                  => y = audio.input]_vars

\* a buffer of differing samples was upsampled and then downsampled
UpsampledThenDownsampled ==
  /\ audio.stage = "8k"
  /\ audio.ops = <<"up", "down">>
  /\ Len(audio.samples) >= 2
  /\ audio.samples[1] # audio.samples[2]

(***************************************************************************)
(* Properties: outbound framing                                            *)
(***************************************************************************)
\* C31: 2 s of LLM audio have produced exactly 100 media frames, each of 160
\* bytes, however the audio was cut into deltas.
TwoSecondsMake100FramesOf160 ==
  audio.samples = TwoSecondsOfSamples
    => /\ audio.frames = payloadBytes(TwoSecondsOfSamples) \div FrameBytes
       /\ audio.offSize = 0

\* 2 s of audio arrived as two deltas of 1 s and left as two frames of 8000
\* bytes
TwoSecondsInTwoFrames ==
  /\ audio.samples = TwoSecondsOfSamples
  /\ audio.frames = 2
  /\ audio.bytes = 16000

(***************************************************************************)
(* Properties: the conversation-state table                                *)
(***************************************************************************)
\* the state table: event ev takes a client from state from to state to
InStateTable(from, ev, to) ==
  \/ ev = "input_audio_buffer.speech_started" /\ to = "user_speaking"
  \/ ev = "input_audio_buffer.speech_stopped" /\ from = "user_speaking" /\ to = "idle"
  \/ ev = "response.audio.delta" /\ from \in {"idle", "user_speaking"}
                                  /\ to = "ai_speaking"
  \/ ev = "response.audio.done" /\ from = "ai_speaking" /\ to = "idle"
  \/ ev = "response.function_call_arguments.done" /\ from \in {"idle", "ai_speaking"}
                                                   /\ to = "idle"

\* C32: every change of a client's conversation state is a transition of the
\* state table (speech_stopped leads to idle only from user-speaking,
\* audio.done only from ai-speaking, a function call is taken only from idle
\* or ai-speaking, and no other pair of state and event changes the state).
StateChangesFollowTable ==
  [][\A c \in DOMAIN bridge.clients :
       bridge'.clients[c].state # bridge.clients[c].state
         => InStateTable(bridge.clients[c].state, bridge'.handled,
                         bridge'.clients[c].state)]_vars

(***************************************************************************)
(* Properties: the first message of an LLM socket                          *)
(***************************************************************************)
\* C33: on every LLM socket, the initial one and each reconnected one, the
\* first message sent is session.update, and telephony media received while
\* the LLM socket is not open is dropped.
SessionUpdateIsFirstOnEverySocket ==
  /\ [](\A c \in DOMAIN bridge.clients :
          bridge.clients[c].first \in {"none", "session.update"})
  /\ [][(/\ bridge'.handled = MediaFrame
          /\ \/ bridge.openai = NoClient
             \/ bridge.clients[bridge.openai].sock # "open")
        => bridge'.sentLLM = <<>>]_vars

\* caller audio was appended on a reconnected socket, whose first message had
\* been session.update
AppendedOnReconnectedSocket ==
  /\ bridge.handled = MediaFrame
  /\ \E k \in DOMAIN bridge.sentLLM :
       /\ bridge.sentLLM[k].msg.type = "input_audio_buffer.append"
       /\ bridge.clients[bridge.sentLLM[k].to].kind = "reconnect"
       /\ bridge.clients[bridge.sentLLM[k].to].first = "session.update"

(***************************************************************************)
(* Properties: the interrupted item after a barge-in                       *)
(***************************************************************************)
\* the last frames written to telephony are those of a barge-in: nothing was
\* played since the caller interrupted
JustBargedIn(b) ==
  LET n == Len(b.twilioLog) IN
  n >= 2 /\ b.twilioLog[n - 1] = "barge" /\ b.twilioLog[n] = "clear"

\* C34: after a barge-in on response item I, a response.audio.delta of item I
\* is not forwarded to telephony; AI media resumes only with a new item.
InterruptedItemIsNotPlayed ==
  [][\A c \in DOMAIN bridge.clients :
       ( /\ JustBargedIn(bridge)
         /\ bridge.clients[c].currentResponseItemId # NullItem
         /\ bridge'.handled = "response.audio.delta"
         /\ bridge'.client = c
         /\ bridge'.clients[c].currentResponseItemId
              = bridge.clients[c].currentResponseItemId )
       => bridge'.sentTwilio = <<>>]_vars

\* a frame of the interrupted item was played right after the barge-in: the
\* audio delivered for the item went on growing
InterruptedItemPlayedOn ==
  LET n == Len(bridge.twilioLog) IN
  /\ n >= 3
  /\ bridge.twilioLog[n - 2] = "barge"
  /\ bridge.twilioLog[n - 1] = "clear"
  /\ bridge.twilioLog[n] = "media"
  /\ bridge.handled = "response.audio.delta"
  /\ bridge.audioMs >= 2 * FrameMs

(***************************************************************************)
(* Properties: tools after teardown                                        *)
(***************************************************************************)
\* C35: no tool is executed after teardown: a function call delivered on an
\* LLM socket whose close was requested does not invoke executeTool.
NoToolRunsAfterTeardown ==
  bridge.executed => bridge.alive /\ ~bridge.clients[bridge.client].closed

\* executeTool ran for a function call that arrived during the closing
\* handshake of the torn-down call's LLM socket
ToolRanDuringClosingHandshake ==
  /\ bridge.executed
  /\ ~bridge.alive
  /\ bridge.clients[bridge.client].closed
  /\ bridge.clients[bridge.client].sock = "closing"

(***************************************************************************)
(* Properties: the reply of create_appointment and the store               *)
(***************************************************************************)
\* the reply of the dispatch of call c reports success
ReportsSuccess(c) == toolResult[c].kind = "result" /\ toolResult[c].success

\* C36: the reply of create_appointment reports success exactly when the
\* invocation inserted a confirmed row, also when a Session Cache operation
\* fails after the insert.
ReplyConsistentWithStore ==
  \A c \in Calls :
    (toolPc[c] = "done" /\ toolResult[c] # NoResult)
      => (ReportsSuccess(c) <=> inserted[c])

\* the row was inserted, the counter increment was rejected, and the reply is
\* the database-error failure
InsertedButReportedFailure ==
  \E c \in Calls :
    /\ toolPc[c] = "done"
    /\ inserted[c]
    /\ ConfirmedRows(toolReq[c].date, toolReq[c].time) # {}
    /\ toolResult[c] = Failure(DbErrorMsg)

(***************************************************************************)
(* Properties: what create_appointment books                               *)
(***************************************************************************)
\* Monday to Friday, by the calendar
IsWeekday(date) == ((EpochDay[date] + 4) % 7) \notin {0, 6}

SlotLabels == {generateAllSlots[i] : i \in DOMAIN generateAllSlots}

\* C37: every confirmed row has a weekday date and a time among the 14 slot
\* labels: create_appointment inserts only a (date, time) that
\* list_available_slots(date) would have returned immediately before.
BooksOnlyListedSlots ==
  /\ [](\A i \in DOMAIN appointments :
          appointments[i].status = "confirmed"
            => /\ IsWeekday(appointments[i].date)
               /\ appointments[i].time \in SlotLabels)
  /\ [][\A c \in Calls :
          (inserted'[c] /\ ~inserted[c])
            => \E k \in DOMAIN listAvailableSlots(toolReq[c].date) :
                 listAvailableSlots(toolReq[c].date)[k] = toolReq[c].time]_vars

\* a Saturday at 12:30 PM was booked and reported as a success
SaturdayLunchBooked ==
  \E c \in Calls :
    /\ toolResult[c].kind = "result" /\ toolResult[c].success
    /\ toolReq[c] = [date |-> "2026-02-14", time |-> "12:30 PM"]
    /\ ConfirmedRows("2026-02-14", "12:30 PM") # {}

(***************************************************************************)
(* Properties: the cached status after teardown                            *)
(***************************************************************************)
\* the endSession operation of the call, if teardown has started
EndOps == {e \in DOMAIN cache.ops : cache.ops[e].kind = "endSession"}

BackoffAfterEndDoesNothing ==
  [][/\ (bridge'.handled = "backoff.elapsed" /\ ~bridge.alive)
        => /\ bridge'.clients = bridge.clients
           /\ bridge'.openai = bridge.openai
           /\ bridge'.reconnectAttempts = bridge.reconnectAttempts
           /\ bridge'.cleanupReason = "none"
           /\ bridge'.twilioWs = bridge.twilioWs
           /\ bridge'.endPc = bridge.endPc
           /\ bridge'.endRecords = bridge.endRecords
           /\ bridge'.session = bridge.session
           /\ bridge'.sentLLM = <<>>
     /\ ~bridge.alive
        => /\ bridge'.delays = bridge.delays
           /\ bridge'.backoffs <= bridge.backoffs]_vars

\* the backoff of a reconnect attempt elapsed on an ended call: the attempt
\* made no client
BackoffElapsedOnEndedCall ==
  /\ bridge.handled = "backoff.elapsed"
  /\ ~bridge.alive
  /\ bridge.backoffs = 0
  /\ Len(bridge.delays) > Cardinality(ReconnectClients(bridge))

====
